---- MODULE Spec2Model ----
(***************************************************************************)
(* Model of housekeeper's directory watch engine                           *)
(* (src/src/housekeeper/core/watcher.py): DirectoryWatcher and             *)
(* CreationEventHandler, together with the watchdog Observer they drive.   *)
(*                                                                         *)
(* The Observer is a thread (an EventDispatcher) with an event queue, a    *)
(* table of handlers per watch, and one emitter per watch.  Its documented *)
(* behaviour is followed here:                                             *)
(*   - schedule() adds the handler to the handler set of the watch keyed   *)
(*     by (path, recursive) and creates one emitter per distinct watch;    *)
(*   - start() starts the emitters and then the thread; a thread can be    *)
(*     started only once (RuntimeError otherwise);                         *)
(*   - stop() sets the stopped flag, unschedules everything and queues a   *)
(*     sentinel; join() waits for the thread and raises RuntimeError on a  *)
(*     thread that was never started;                                      *)
(*   - the thread's loop takes one queue entry at a time and, holding the  *)
(*     observer's lock, calls every handler of the entry's watch; nothing  *)
(*     in the loop catches an exception raised by a handler.               *)
(***************************************************************************)
EXTENDS Naturals, Sequences, FiniteSets

VARIABLES
    handlers,       \* every CreationEventHandler constructed so far
    obs_handlers,   \* the handlers registered in the observer
    obs_emitters,   \* watch directories that have an emitter
    em_running,     \* those emitters that have been started
    stopped_event,  \* the observer thread's stopped flag
    dpc,            \* notification thread: new/wait/dispatch/callback/done/
                    \* crashed_decode/crashed_callback
    queue,          \* the observer's event queue
    cur,            \* the queue entry being dispatched
    todo,           \* handlers still to be called for cur
    curH,           \* handler whose callback is in progress, or NoHandler
    _running,       \* DirectoryWatcher._running
    mpc,            \* calling thread: idle/start_1/stop_1/stop_2
    created,        \* filesystem: the items created so far: [path,
                    \* afterStop, seq (the item's place in the order in
                    \* which emitters reported items; 0: not reported)]
    calls,          \* log of callback invocations, in order: [h, cb, path,
                    \* type, item, is_directory (the raw event's), afterStop]
    handled,        \* the on_created calls made so far: [h, item, decoded]
    lastRet,        \* last of start()/stop() that returned normally
    lastCall,       \* last of start()/stop() that finished, and how
    stopReturned,   \* a stop() has returned
    \* the calling layers (main.py, daemon/runner.py, daemon/windows.py,
    \* macos/app.py) and what they are run with
    env,            \* the run's surroundings: layer, platform lookups, which
                    \* paths are directories, config.directories, command line
    directories,    \* the list of candidate roots the layer has built
    pending,        \* the part of directories its loop has still to visit
    lpc,            \* the layer's main thread
    spc,            \* the thread that asks for the stop (SIGTERM, SvcStop)
    watchers,       \* every DirectoryWatcher the layer has constructed
    watcher,        \* the one it holds (index in watchers; 0: None)
    _is_watching,   \* HousekeeperApp._is_watching
    stop_event,     \* the layer's stop event
    log,            \* what it has logged: the paths it reported as skipped
                    \* or refused, and its messages
    ret,            \* cmd_watch's return value ("none" until it returns)
    \* the configuration file (config/loader.py)
    config_path,    \* the config_path argument of the calls: "None" (the
                    \* default location) or "explicit"
    file,           \* the file at that path: whether it exists, and its text
    saved,          \* the list given to the last save_config, kept while
                    \* the file is as that call left it
    cfg_last,       \* the last operation on the file and how it ended
    \* the application logger (logging/logger.py)
    logger,         \* logging.getLogger("housekeeper"): level and handlers
    streams,        \* what has been written to the console and to each file
    sent,           \* the messages passed to the logger so far
    \* the daemon manager (daemon/manager.py)
    pid_file,       \* the PID file: whether it exists, and its text
    procs,          \* for each PID, what os.kill finds there: "none" (no
                    \* such process), "own", "foreign" (another user's)
    sigterms,       \* the PIDs SIGTERM has been sent to, in order
    sd,             \* the stop_daemon call: position, the pid read (0:
                    \* None), what the first is_process_running answered,
                    \* seconds since start_time, result
    status,         \* the last get_daemon_status call: what it returned
                    \* (pid 0: None) and how far stop_daemon had come
    cmds            \* the "daemon start" commands (main.py): for each its
                    \* position, what get_daemon_status told it, whether it
                    \* called Popen, the spawned process while that has not
                    \* got the PID file (0: none), the polls made, the PID
                    \* found and the exit code

engineVars == <<handlers, obs_handlers, obs_emitters, em_running, stopped_event,
                dpc, queue, cur, todo, curH, _running, mpc, created, calls,
                handled, lastRet, lastCall, stopReturned>>

layerVars == <<env, directories, pending, lpc, spc, watchers, watcher,
               _is_watching, stop_event, log, ret>>

cfgVars == <<config_path, file, saved, cfg_last>>

logVars == <<logger, streams, sent>>

daemonVars == <<pid_file, procs, sigterms, sd, status, cmds>>

toolVars == <<cfgVars, logVars, daemonVars>>

vars == <<engineVars, layerVars, toolVars>>

(***************************************************************************)
(* Bounds of the model.                                                    *)
(***************************************************************************)
MaxHandlers == 2
MaxCreate == 2
MaxList == 1        \* entries in config.directories, and on the command line
MaxSessions == 2    \* DirectoryWatcher objects the menu-bar app constructs

(***************************************************************************)
(* Paths.  A Path is its sequence of components; a path string is the      *)
(* sequence of its tokens, "/" separating the components.                  *)
(***************************************************************************)
DirA == <<"a">>
DirAS == <<"a", "s">>
DirB == <<"b">>
BaseDirs == {DirA, DirAS, DirB}
Names == {"x"}
Callbacks == {"f"}
Encodings == {"str", "bytes", "badbytes"}
\* the created items reported: a file named by a str, a directory named by
\* bytes that decode, a file named by bytes that do not decode
EventKinds == {[is_directory |-> FALSE, enc |-> "str"],
               [is_directory |-> TRUE, enc |-> "bytes"],
               [is_directory |-> FALSE, enc |-> "badbytes"]}

(***************************************************************************)
(* str(directory): the path string of a Path.                              *)
(***************************************************************************)
RECURSIVE PathStr(_)
PathStr(p) == IF p = <<>> THEN <<>> ELSE <<"/", Head(p)>> \o PathStr(Tail(p))

(***************************************************************************)
(* Path(src_path): the components of a path string.                        *)
(***************************************************************************)
PathOf(s) == SelectSeq(s, LAMBDA t : t # "/")

(***************************************************************************)
(* Path.parent                                                             *)
(***************************************************************************)
Parent(p) == IF p = <<>> THEN <<>> ELSE SubSeq(p, 1, Len(p) - 1)

(***************************************************************************)
(* A watch scheduled with recursive=True reports every path below its      *)
(* directory, at any depth.                                                *)
(***************************************************************************)
IsUnder(w, p) == Len(p) > Len(w) /\ SubSeq(p, 1, Len(w)) = w

(***************************************************************************)
(* The orders in which a set can be iterated.                              *)
(***************************************************************************)
Orderings(S) ==
    {s \in [1..Cardinality(S) -> S] :
        \A i, j \in 1..Cardinality(S) : i # j => s[i] # s[j]}

(***************************************************************************)
(* The raw event an emitter of watch w queues for a created item: the      *)
(* watch's path string joined with the item's path relative to it.         *)
(***************************************************************************)
RawEvent(w, c) ==
    [kind |-> "event",
     src_path |-> PathStr(w) \o PathStr(SubSeq(c.path, Len(w) + 1, Len(c.path))),
     enc |-> c.enc,
     is_directory |-> c.is_directory,
     watch |-> w,
     item |-> c.path]

NoEntry ==
    [kind |-> "none", src_path |-> <<>>, enc |-> "str", is_directory |-> FALSE,
     watch |-> <<>>, item |-> <<>>]

StopEntry ==
    [kind |-> "stop", src_path |-> <<>>, enc |-> "str", is_directory |-> FALSE,
     watch |-> <<>>, item |-> <<>>]

(***************************************************************************)
(* CreationEventHandler.on_created, in its parts.                          *)
(***************************************************************************)
\* src_path.decode() raises UnicodeDecodeError on bytes that are not UTF-8
DecodeFails(ev) == ev.enc = "badbytes"

\* path = Path(src_path)
EventPath(ev) == PathOf(ev.src_path)

\* variants of the filter with a slip in the comparison
IsDirectChildPrefix(path, watched_dir) == IsUnder(watched_dir, path)
IsDirectChildNoFilter(path, watched_dir) == TRUE
IsDirectChildSelf(path, watched_dir) == path = watched_dir

\* the filter: path.parent != self._watched_dir returns without a callback
IsDirectChild(path, watched_dir) == Parent(path) = watched_dir

\* variant of the choice below that always answers FILE
ItemTypeAlwaysFile(ev) == "FILE"

\* item_type = ItemType.DIR if event.is_directory else ItemType.FILE
ItemTypeOf(ev) == IF ev.is_directory THEN "DIR" ELSE "FILE"

(***************************************************************************)
(* CreationEventHandler.__init__: a handler object keeps the directory and *)
(* the callback; ord tells apart the objects built from equal arguments.   *)
(***************************************************************************)
NewHandler(d, cb) ==
    [_watched_dir |-> d, _on_created |-> cb,
     ord |-> 1 + Cardinality({h \in handlers :
                                 h._watched_dir = d /\ h._on_created = cb})]

NoHandler == [_watched_dir |-> <<>>, _on_created |-> "none", ord |-> 0]

\* observer._handlers[watch]: the watch is keyed by (path, recursive=True)
HandlersOf(w) == {h \in obs_handlers : h._watched_dir = w}

(***************************************************************************)
(* State of the observer thread.                                           *)
(***************************************************************************)
ThreadAlive == dpc \in {"wait", "dispatch", "callback"}
ThreadStarted == dpc # "new"
ThreadTerminated == dpc \in {"done", "crashed_decode", "crashed_callback"}
\* the observer's lock is held while the handlers of one entry are called
LockHeld == dpc \in {"dispatch", "callback"}

\* the loop's test, made when the thread starts and after each
\* dispatch_events(): go on to wait for an entry, or leave run()
should_keep_running == ~stopped_event
AfterDispatch == IF should_keep_running THEN "wait" ELSE "done"

ExistingDirs == BaseDirs
ExistingPaths == BaseDirs \cup {c.path : c \in created}

(***************************************************************************)
(* The parts of the program beside the engine and its callers, before      *)
(* anything has used them: no configuration file, a logger without         *)
(* handlers, no PID file and no process.                                   *)
(***************************************************************************)
\* the result of an operation on the configuration file
CfgResult(op, raised, dirs) == [op |-> op, raised |-> raised, directories |-> dirs]

\* the file is missing; the file with a text
Absent == [exists |-> FALSE, text |-> <<>>]
FileOf(text) == [exists |-> TRUE, text |-> text]

\* no save_config to go by; the list of the last save_config
NotSaved == [valid |-> FALSE, directories |-> <<>>]
Saved(dirs) == [valid |-> TRUE, directories |-> dirs]

NoConfig ==
    /\ config_path = "None"
    /\ file = Absent
    /\ saved = NotSaved
    /\ cfg_last = CfgResult("none", "none", <<>>)

\* where a handler writes: the console, or one of two log files
LogFiles == {"housekeeper.log", "other.log"}
Streams == {"console"} \cup LogFiles

\* logging.NOTSET, DEBUG, INFO, WARNING
NOTSET == 0
DEBUG == 10
INFO == 20
WARNING == 30

NoLogging ==
    /\ logger = [level |-> NOTSET, handlers |-> <<>>]
    /\ streams = [st \in Streams |-> <<>>]
    /\ sent = <<>>

Pids == {1, 2}

\* stop_daemon is not being called
SdIdle ==
    [pc |-> "idle", pid |-> 0, alive |-> FALSE, clock |-> 0, result |-> "none"]

\* no PID file; the PID file with a text
NoPidFile == [exists |-> FALSE, text |-> ""]
PidFileOf(text) == [exists |-> TRUE, text |-> text]

\* get_daemon_status has not been called
NoStatus == [called |-> FALSE, running |-> FALSE, pid |-> 0, after |-> "none"]

\* the "daemon start" commands that may run side by side
Cmds == {1, 2}

\* a "daemon start" command that has not been given, and one about to run
CmdIdle ==
    [pc |-> "idle", seen |-> FALSE, spawned |-> FALSE, child |-> 0,
     polls |-> 0, found |-> 0, ret |-> "none"]
CmdGiven == [CmdIdle EXCEPT !.pc = "status"]

NoDaemon ==
    /\ pid_file = NoPidFile
    /\ procs = [p \in Pids |-> "none"]
    /\ sigterms = <<>>
    /\ sd = SdIdle
    /\ status = NoStatus
    /\ cmds = [c \in Cmds |-> CmdIdle]

NoTools == NoConfig /\ NoLogging /\ NoDaemon

(***************************************************************************)
(* DirectoryWatcher.__init__: a fresh Observer, _running = False.          *)
(***************************************************************************)
EngineInit ==
    /\ handlers = {}
    /\ obs_handlers = {}
    /\ obs_emitters = {}
    /\ em_running = {}
    /\ stopped_event = FALSE
    /\ dpc = "new"
    /\ queue = <<>>
    /\ cur = NoEntry
    /\ todo = <<>>
    /\ curH = NoHandler
    /\ _running = FALSE
    /\ mpc = "idle"
    /\ created = {}
    /\ calls = <<>>
    /\ handled = {}
    /\ lastRet = "none"
    /\ lastCall = <<"none", "none">>
    /\ stopReturned = FALSE

\* no calling layer: the engine is driven directly, as the tests drive it
NoLayer ==
    /\ env = [layer |-> "none"]
    /\ directories = <<>>
    /\ pending = <<>>
    /\ lpc = "none"
    /\ spc = "none"
    /\ watchers = <<>>
    /\ watcher = 0
    /\ _is_watching = FALSE
    /\ stop_event = FALSE
    /\ log = {}
    /\ ret = "none"

Init == EngineInit /\ NoLayer /\ NoTools

(***************************************************************************)
(* is_running()                                                            *)
(***************************************************************************)
is_running == _running

(***************************************************************************)
(* watch(directory, on_created): construct the handler and schedule it.    *)
(* schedule() takes the observer's lock; an emitter created while the      *)
(* thread is alive is started at once.                                     *)
(***************************************************************************)
\* variant of watch() below whose emitter is started at once, whether or
\* not the observer's thread is alive
WatchStartsEmitter(d, cb) ==
    /\ mpc = "idle"
    /\ ~LockHeld
    /\ Cardinality(handlers) < MaxHandlers
    /\ handlers' = handlers \cup {NewHandler(d, cb)}
    /\ obs_handlers' = obs_handlers \cup {NewHandler(d, cb)}
    /\ obs_emitters' = obs_emitters \cup {d}
    /\ em_running' = em_running \cup {d}
    /\ UNCHANGED <<stopped_event, dpc, queue, cur, todo, curH, _running, mpc,
                   created, calls, handled, lastRet, lastCall, stopReturned>>
    /\ UNCHANGED <<layerVars, toolVars>>

Watch(d, cb) ==
    /\ mpc = "idle"
    /\ ~LockHeld
    /\ Cardinality(handlers) < MaxHandlers
    /\ handlers' = handlers \cup {NewHandler(d, cb)}
    /\ obs_handlers' = obs_handlers \cup {NewHandler(d, cb)}
    /\ obs_emitters' = obs_emitters \cup {d}
    /\ em_running' = IF d \notin obs_emitters /\ ThreadAlive
                     THEN em_running \cup {d} ELSE em_running
    /\ UNCHANGED <<stopped_event, dpc, queue, cur, todo, curH, _running, mpc,
                   created, calls, handled, lastRet, lastCall, stopReturned>>
    /\ UNCHANGED <<layerVars, toolVars>>

(***************************************************************************)
(* start(), first statement: self._observer.start().  The observer starts  *)
(* its emitters one by one (an emitter that is already started raises and  *)
(* is removed), then the thread itself, which can be started only once.    *)
(***************************************************************************)
StartObserver ==
    /\ mpc = "idle"
    /\ IF obs_emitters \cap em_running # {}
       THEN \E e \in obs_emitters \cap em_running :
            \E S \in SUBSET (obs_emitters \ em_running) :
                /\ em_running' = (em_running \cup S) \ {e}
                /\ obs_emitters' = obs_emitters \ {e}
                /\ lastCall' = <<"start", "raised">>
                /\ UNCHANGED <<dpc, mpc>>
       ELSE /\ em_running' = obs_emitters
            /\ UNCHANGED obs_emitters
            /\ IF ThreadStarted
               THEN /\ lastCall' = <<"start", "raised">>
                    /\ UNCHANGED <<dpc, mpc>>
               ELSE /\ dpc' = AfterDispatch
                    /\ mpc' = "start_1"
                    /\ UNCHANGED lastCall
    /\ UNCHANGED <<handlers, obs_handlers, stopped_event, queue, cur, todo, curH,
                   _running, created, calls, handled, lastRet, stopReturned>>
    /\ UNCHANGED <<layerVars, toolVars>>

(***************************************************************************)
(* start(), second statement: self._running = True.                        *)
(***************************************************************************)
StartSetRunning ==
    /\ mpc = "start_1"
    /\ _running' = TRUE
    /\ mpc' = "idle"
    /\ lastRet' = "start"
    /\ lastCall' = <<"start", "returned">>
    /\ UNCHANGED <<handlers, obs_handlers, obs_emitters, em_running, stopped_event,
                   dpc, queue, cur, todo, curH, created, calls, handled,
                   stopReturned>>
    /\ UNCHANGED <<layerVars, toolVars>>

(***************************************************************************)
(* stop(), first statement: self._observer.stop().  It sets the stopped    *)
(* flag, unschedules every handler and stops every emitter (which needs    *)
(* the observer's lock, so it waits for a dispatch in progress), and       *)
(* queues the sentinel.  The thread leaves its loop at the first sentinel  *)
(* it takes, so a further sentinel behind one already queued is never      *)
(* taken and is not kept.                                                  *)
(***************************************************************************)
HasStopEntry == \E i \in 1..Len(queue) : queue[i] = StopEntry

StopObserver ==
    /\ mpc = "idle"
    /\ ~LockHeld
    /\ stopped_event' = TRUE
    /\ obs_handlers' = {}
    /\ obs_emitters' = {}
    /\ em_running' = {}
    /\ queue' = IF HasStopEntry THEN queue ELSE Append(queue, StopEntry)
    /\ mpc' = "stop_1"
    /\ UNCHANGED <<handlers, dpc, cur, todo, curH, _running, created, calls,
                   handled, lastRet, lastCall, stopReturned>>
    /\ UNCHANGED <<layerVars, toolVars>>

\* variant of the join below that does not wait for the thread
StopJoinNoWait ==
    /\ mpc = "stop_1"
    /\ mpc' = "stop_2"
    /\ UNCHANGED <<handlers, obs_handlers, obs_emitters, em_running, stopped_event,
                   dpc, queue, cur, todo, curH, _running, created, calls, handled,
                   lastRet, lastCall, stopReturned>>
    /\ UNCHANGED <<layerVars, toolVars>>

(***************************************************************************)
(* stop(), second statement: self._observer.join().  It returns once the   *)
(* thread has terminated and raises on a thread that was never started.    *)
(***************************************************************************)
StopJoin ==
    /\ mpc = "stop_1"
    /\ \/ /\ dpc = "new"
          /\ mpc' = "idle"
          /\ lastCall' = <<"stop", "raised">>
       \/ /\ ThreadTerminated
          /\ mpc' = "stop_2"
          /\ UNCHANGED lastCall
    /\ UNCHANGED <<handlers, obs_handlers, obs_emitters, em_running, stopped_event,
                   dpc, queue, cur, todo, curH, _running, created, calls, handled,
                   lastRet, stopReturned>>
    /\ UNCHANGED <<layerVars, toolVars>>

\* variant of the statement below that leaves the flag as it is
StopKeepsRunning ==
    /\ mpc = "stop_2"
    /\ mpc' = "idle"
    /\ lastRet' = "stop"
    /\ lastCall' = <<"stop", "returned">>
    /\ stopReturned' = TRUE
    /\ UNCHANGED <<handlers, obs_handlers, obs_emitters, em_running, stopped_event,
                   dpc, queue, cur, todo, curH, _running, created, calls, handled>>
    /\ UNCHANGED <<layerVars, toolVars>>

\* variant of the statement below in which stop() also replaces the
\* observer by a fresh one
StopResetsObserver ==
    /\ mpc = "stop_2"
    /\ _running' = FALSE
    /\ mpc' = "idle"
    /\ lastRet' = "stop"
    /\ lastCall' = <<"stop", "returned">>
    /\ stopReturned' = TRUE
    /\ dpc' = "new"
    /\ stopped_event' = FALSE
    /\ queue' = <<>>
    /\ UNCHANGED <<handlers, obs_handlers, obs_emitters, em_running, cur, todo,
                   curH, created, calls, handled>>
    /\ UNCHANGED <<layerVars, toolVars>>

(***************************************************************************)
(* stop(), third statement: self._running = False.                         *)
(***************************************************************************)
StopSetRunning ==
    /\ mpc = "stop_2"
    /\ _running' = FALSE
    /\ mpc' = "idle"
    /\ lastRet' = "stop"
    /\ lastCall' = <<"stop", "returned">>
    /\ stopReturned' = TRUE
    /\ UNCHANGED <<handlers, obs_handlers, obs_emitters, em_running, stopped_event,
                   dpc, queue, cur, todo, curH, created, calls, handled>>
    /\ UNCHANGED <<layerVars, toolVars>>

(***************************************************************************)
(* The filesystem: an item is created in an existing directory.  Every     *)
(* running emitter whose watch covers the path queues one raw event.       *)
(***************************************************************************)
Create(parent, n, isDir, enc) ==
    LET c == [path |-> Append(parent, n), is_directory |-> isDir, enc |-> enc]
        covering == {w \in em_running : IsUnder(w, c.path)}
    IN  /\ Cardinality(created) < MaxCreate
        /\ parent \in ExistingDirs
        /\ c.path \notin ExistingPaths
        /\ enc \in Encodings
        \* with no emitter to report it, or no thread left to take it from the
        \* queue, the item's kind and name encoding are never seen by the
        \* program: one representative is enough
        /\ (covering = {} \/ ThreadTerminated) => ~isDir /\ enc = "str"
        /\ created' = created \cup {[path |-> c.path, afterStop |-> stopReturned,
                                      seq |-> IF covering = {} THEN 0
                                              ELSE 1 + Cardinality(
                                                   {x \in created : x.seq > 0})]}
        /\ \E ord \in Orderings(covering) :
               queue' = queue \o [i \in 1..Len(ord) |-> RawEvent(ord[i], c)]
        /\ UNCHANGED <<handlers, obs_handlers, obs_emitters, em_running,
                       stopped_event, dpc, cur, todo, curH, _running, mpc, calls,
                       handled, lastRet, lastCall, stopReturned>>
        /\ UNCHANGED <<layerVars, toolVars>>

(***************************************************************************)
(* The notification thread: while should_keep_running(): dispatch_events.  *)
(***************************************************************************)
\* where the thread goes once a handler has returned: to the next handler
\* of the entry, or (every handler called: lock released, task_done) back
\* to the loop's test
AfterHandler(rest) == IF rest = <<>> THEN AfterDispatch ELSE "dispatch"
EntryAfterHandler(e, rest) == IF rest = <<>> THEN NoEntry ELSE e

\* variant of the step below that takes the newest entry of the queue
DispGetLast ==
    /\ dpc = "wait"
    /\ queue # <<>>
    /\ queue' = SubSeq(queue, 1, Len(queue) - 1)
    /\ IF queue[Len(queue)].kind = "stop"
       THEN /\ dpc' = AfterDispatch
            /\ UNCHANGED <<cur, todo>>
       ELSE \E ord \in Orderings(HandlersOf(queue[Len(queue)].watch)) :
                /\ todo' = ord
                /\ cur' = EntryAfterHandler(queue[Len(queue)], ord)
                /\ dpc' = AfterHandler(ord)
    /\ UNCHANGED <<handlers, obs_handlers, obs_emitters, em_running, stopped_event,
                   curH, _running, mpc, created, calls, handled, lastRet, lastCall,
                   stopReturned>>
    /\ UNCHANGED <<layerVars, toolVars>>

\* event_queue.get(); the sentinel returns to the loop, an event is
\* dispatched under the lock to the handlers registered for its watch
DispGet ==
    /\ dpc = "wait"
    /\ queue # <<>>
    /\ queue' = Tail(queue)
    /\ IF Head(queue).kind = "stop"
       THEN /\ dpc' = AfterDispatch
            /\ UNCHANGED <<cur, todo>>
       ELSE \E ord \in Orderings(HandlersOf(Head(queue).watch)) :
                /\ todo' = ord
                /\ cur' = EntryAfterHandler(Head(queue), ord)
                /\ dpc' = AfterHandler(ord)
    /\ UNCHANGED <<handlers, obs_handlers, obs_emitters, em_running, stopped_event,
                   curH, _running, mpc, created, calls, handled, lastRet, lastCall,
                   stopReturned>>
    /\ UNCHANGED <<layerVars, toolVars>>

\* handler.dispatch(event) for the next handler: on_created up to the
\* callback; an exception leaves the thread's run() and ends the thread
DispHandler ==
    /\ dpc = "dispatch"
    /\ todo # <<>>
    /\ LET h == Head(todo) IN
       /\ handled' = handled \cup {[h |-> h, item |-> cur.item,
                                     decoded |-> ~DecodeFails(cur)]}
       /\ IF DecodeFails(cur)
          THEN /\ dpc' = "crashed_decode"
               /\ cur' = NoEntry
               /\ todo' = <<>>
               /\ UNCHANGED <<calls, curH>>
          ELSE IF ~IsDirectChild(EventPath(cur), h._watched_dir)
          THEN /\ todo' = Tail(todo)
               /\ dpc' = AfterHandler(Tail(todo))
               /\ cur' = EntryAfterHandler(cur, Tail(todo))
               /\ UNCHANGED <<calls, curH>>
          ELSE /\ calls' = Append(calls, [h |-> h, cb |-> h._on_created,
                                          path |-> EventPath(cur),
                                          type |-> ItemTypeOf(cur),
                                          item |-> cur.item,
                                          is_directory |-> cur.is_directory,
                                          afterStop |-> stopReturned])
               /\ curH' = h
               /\ todo' = Tail(todo)
               /\ dpc' = "callback"
               /\ UNCHANGED cur
    /\ UNCHANGED <<handlers, obs_handlers, obs_emitters, em_running, stopped_event,
                   queue, _running, mpc, created, lastRet, lastCall, stopReturned>>
    /\ UNCHANGED <<layerVars, toolVars>>

\* the callback returns normally
CallbackReturn ==
    /\ dpc = "callback"
    /\ curH' = NoHandler
    /\ dpc' = AfterHandler(todo)
    /\ cur' = EntryAfterHandler(cur, todo)
    /\ UNCHANGED <<handlers, obs_handlers, obs_emitters, em_running, stopped_event,
                   queue, todo, _running, mpc, created, calls, handled,
                   lastRet, lastCall, stopReturned>>
    /\ UNCHANGED <<layerVars, toolVars>>

\* the callback raises: on_created does not catch, nor does the thread's loop
CallbackRaise ==
    /\ dpc = "callback"
    /\ curH' = NoHandler
    /\ dpc' = "crashed_callback"
    /\ cur' = NoEntry
    /\ todo' = <<>>
    /\ UNCHANGED <<handlers, obs_handlers, obs_emitters, em_running, stopped_event,
                   queue, _running, mpc, created, calls, handled, lastRet,
                   lastCall, stopReturned>>
    /\ UNCHANGED <<layerVars, toolVars>>

Next ==
    \/ \E d \in BaseDirs, cb \in Callbacks : Watch(d, cb)
    \/ StartObserver
    \/ StartSetRunning
    \/ StopObserver
    \/ StopJoin
    \/ StopSetRunning
    \/ \E parent \in ExistingDirs, n \in Names, k \in EventKinds :
           Create(parent, n, k.is_directory, k.enc)
    \/ DispGet
    \/ DispHandler
    \/ CallbackReturn
    \/ CallbackRaise

Spec == Init /\ [][Next]_vars

(***************************************************************************)
(* start() when the notification backend cannot attach to the root of one  *)
(* emitter (the directory has vanished, permission is denied, the platform *)
(* has no watch left): the emitter's start raises; the observer removes    *)
(* that emitter and raises again, leaving the emitters it had started      *)
(* before it (S) running and its own thread not started.  start() has no   *)
(* handler for the exception and does not reach self._running = True.      *)
(***************************************************************************)
StartObserverFails ==
    /\ mpc = "idle"
    /\ obs_emitters \cap em_running = {}
    /\ \E e \in obs_emitters :
       \E S \in SUBSET (obs_emitters \ {e}) :
           /\ em_running' = em_running \cup S
           /\ obs_emitters' = obs_emitters \ {e}
    /\ lastCall' = <<"start", "raised">>
    /\ UNCHANGED <<handlers, obs_handlers, stopped_event, dpc, queue, cur, todo,
                   curH, _running, mpc, created, calls, handled, lastRet,
                   stopReturned>>
    /\ UNCHANGED <<layerVars, toolVars>>

FaultNext ==
    \/ Next
    \/ StartObserverFails

SpecFaults == Init /\ [][FaultNext]_vars

(***************************************************************************)
(* The same engine with several items created in one root: the root is a,  *)
(* where two names can be created, and one more in its subdirectory a/s.   *)
(***************************************************************************)
OrderDirs == {DirA}
OrderItems == {[parent |-> DirA, name |-> "x"], [parent |-> DirA, name |-> "y"],
               [parent |-> DirAS, name |-> "x"]}

OrderNext ==
    \/ \E d \in OrderDirs, cb \in Callbacks : Watch(d, cb)
    \/ StartObserver
    \/ StartSetRunning
    \/ StopObserver
    \/ StopJoin
    \/ StopSetRunning
    \/ \E it \in OrderItems, k \in EventKinds :
           Create(it.parent, it.name, k.is_directory, k.enc)
    \/ DispGet
    \/ DispHandler
    \/ CallbackReturn
    \/ CallbackRaise

SpecOrder == Init /\ [][OrderNext]_vars

(***************************************************************************)
(* The calling layers.  Paths are written as path strings here.  A layer   *)
(* is run with: the platform's answers to the six user-directory lookups   *)
(* ("raise": the lookup raises), the set of paths that are existing        *)
(* directories, the directory strings of the configuration file, and the   *)
(* command line.                                                           *)
(***************************************************************************)
Home == "/home/u"
Desktop == "/home/u/Desktop"
Extra == "/data"
ExtraLink == "/home/u/link"     \* a symbolic link to Extra
LayerPaths == {Home, Desktop, Extra}
DirStrings == LayerPaths \cup {ExtraLink}
LookupResults == LayerPaths \cup {"raise"}

\* xdg_funcs, in the order get_xdg_directories calls them
xdg_funcs == <<"user_desktop_dir", "user_documents_dir", "user_downloads_dir",
               "user_music_dir", "user_pictures_dir", "user_videos_dir">>
XdgNames == {xdg_funcs[i] : i \in 1..Len(xdg_funcs)}

\* Path.resolve(): the link is replaced by what it points to
Resolve(p) == IF p = ExtraLink THEN Extra ELSE p
ResolveAll(ps) == [i \in 1..Len(ps) |-> Resolve(ps[i])]

\* directory.is_dir()
is_dir(p) == p \in env.is_dir

\* get_home_directory(): Path.home()
get_home_directory == Home

\* get_xdg_directories(): the answers that are existing directories, in the
\* order of xdg_funcs; a lookup that raises is passed over
RECURSIVE XdgDirs(_)
XdgDirs(fs) ==
    IF fs = <<>> THEN <<>>
    ELSE LET r == env.lookup[Head(fs)]
         IN  (IF r # "raise" /\ is_dir(r) THEN <<r>> ELSE <<>>) \o XdgDirs(Tail(fs))

get_xdg_directories == XdgDirs(xdg_funcs)

\* get_default_directories(): the home directory, then the XDG directories
get_default_directories == <<get_home_directory>> \o get_xdg_directories

NoRepeats(ps) == \A i, j \in 1..Len(ps) : i # j => ps[i] # ps[j]
Range(ps) == {ps[i] : i \in 1..Len(ps)}

(***************************************************************************)
(* A DirectoryWatcher as its callers see it: the roots passed to watch(),  *)
(* the observer's emitters, the _running flag, the observer thread (new,   *)
(* alive, dead) and its stopped flag, the number of start() calls and of   *)
(* stop() calls made on it, and the threads that are inside its stop().    *)
(***************************************************************************)
NewWatcher ==
    [watched |-> <<>>, emitters |-> {}, _running |-> FALSE, thread |-> "new",
     stopped |-> FALSE, starts |-> 0, stops |-> 0, in_stop |-> {}]

\* watcher.watch(directory, callback)
WatchCall(w, d) ==
    [w EXCEPT !.watched = Append(@, d), !.emitters = @ \cup {d}]

\* watcher.start() returning: the thread is started (and leaves its loop at
\* once when the observer was stopped before), then _running = True
StartReturns(w) ==
    [w EXCEPT !.thread = IF w.stopped THEN "dead" ELSE "alive",
              !._running = TRUE, !.starts = @ + 1]

\* watcher.start() raising: the thread was started before, or the backend
\* cannot attach to a root
StartRaises(w) == [w EXCEPT !.starts = @ + 1]

\* watcher.stop(), entered by thread t: self._observer.stop()
StopEnter(w, t) ==
    [w EXCEPT !.stopped = TRUE, !.emitters = {}, !.stops = @ + 1,
              !.in_stop = @ \cup {t}]

\* variant of the return from stop() below whose join() does not wait for
\* the thread
StopLeaveNoJoin(w, t) == [w EXCEPT !._running = FALSE, !.in_stop = @ \ {t}]

\* watcher.stop(), left by thread t: join() raises on a thread never
\* started, and otherwise returns once the thread is dead; _running = False
StopLeave(w, t) ==
    IF w.thread = "new"
    THEN [w EXCEPT !.in_stop = @ \ {t}]
    ELSE [w EXCEPT !.thread = "dead", !._running = FALSE, !.in_stop = @ \ {t}]

\* the whole of stop() in one thread
StopCall(w, t) == StopLeave(StopEnter(w, t), t)

\* the roots a loop registers from a list, passing over what is not a
\* directory
RECURSIVE WatchAll(_, _)
WatchAll(w, ps) ==
    IF ps = <<>> THEN w
    ELSE WatchAll(IF is_dir(Head(ps)) THEN WatchCall(w, Head(ps)) ELSE w, Tail(ps))

Layers == {"cli", "runner", "service", "app"}
Stepwise == {"cli", "runner", "service"}

(***************************************************************************)
(* cmd_watch, run_watcher and SvcDoRun, statement by statement.            *)
(***************************************************************************)
\* variant of the step below that takes no notice of --only
BuildDirectoriesAll ==
    /\ env.layer \in Stepwise
    /\ lpc = "init"
    /\ directories' = get_default_directories
    /\ lpc' = "extend"
    /\ UNCHANGED <<env, pending, spc, watchers, watcher, _is_watching,
                   stop_event, log, ret>>
    /\ UNCHANGED <<engineVars, toolVars>>

\* the list is begun: the command line alone with --only (the current
\* directory when it names none), the default directories otherwise
BuildDirectories ==
    /\ env.layer \in Stepwise
    /\ lpc = "init"
    /\ IF env.layer = "cli" /\ env.only
       THEN /\ directories' = IF env.arg_dirs # <<>>
                              THEN ResolveAll(env.arg_dirs) ELSE <<env.cwd>>
            /\ lpc' = "construct"
       ELSE /\ directories' = get_default_directories
            /\ lpc' = "extend"
    /\ UNCHANGED <<env, pending, spc, watchers, watcher, _is_watching,
                   stop_event, log, ret>>
    /\ UNCHANGED <<engineVars, toolVars>>

\* directories.extend(...): the resolved directories of the configuration,
\* then (cmd_watch) those of the command line
ExtendDirectories ==
    /\ env.layer \in Stepwise
    /\ lpc = "extend"
    /\ directories' = directories \o ResolveAll(env.config_directories)
                         \o (IF env.layer = "cli"
                             THEN ResolveAll(env.arg_dirs) ELSE <<>>)
    /\ lpc' = "construct"
    /\ UNCHANGED <<env, pending, spc, watchers, watcher, _is_watching,
                   stop_event, log, ret>>
    /\ UNCHANGED <<engineVars, toolVars>>

\* watcher = DirectoryWatcher()
Construct ==
    /\ env.layer \in Stepwise
    /\ lpc = "construct"
    /\ watchers' = Append(watchers, NewWatcher)
    /\ watcher' = Len(watchers) + 1
    /\ pending' = directories
    /\ lpc' = "loop"
    /\ UNCHANGED <<env, directories, spc, _is_watching, stop_event, log, ret>>
    /\ UNCHANGED <<engineVars, toolVars>>

\* one turn of "for directory in directories": cmd_watch reports what is
\* not a directory and returns 1; run_watcher and SvcDoRun report it and go
\* on; a directory is registered
LoopStep ==
    /\ env.layer \in Stepwise
    /\ lpc = "loop"
    /\ IF pending = <<>>
       THEN /\ lpc' = IF env.layer = "cli" THEN "start" ELSE "check"
            /\ UNCHANGED <<pending, watchers, log, ret>>
       ELSE IF ~is_dir(Head(pending))
       THEN /\ log' = log \cup {Head(pending)}
            /\ IF env.layer = "cli"
               THEN /\ ret' = "1"
                    /\ lpc' = "returned"
                    /\ UNCHANGED pending
               ELSE /\ pending' = Tail(pending)
                    /\ UNCHANGED <<lpc, ret>>
            /\ UNCHANGED watchers
       ELSE /\ watchers' = [watchers EXCEPT
                               ![watcher] = WatchCall(@, Head(pending))]
            /\ pending' = Tail(pending)
            /\ UNCHANGED <<lpc, log, ret>>
    /\ UNCHANGED <<env, directories, spc, watcher, _is_watching, stop_event>>
    /\ UNCHANGED <<engineVars, toolVars>>

\* variant of the test below that goes on to start() in every case
CheckEmittersSkipped ==
    /\ env.layer \in {"runner", "service"}
    /\ lpc = "check"
    /\ lpc' = "start"
    /\ UNCHANGED <<env, directories, pending, spc, watchers, watcher,
                   _is_watching, stop_event, log, ret>>
    /\ UNCHANGED <<engineVars, toolVars>>

\* if not watcher._observer.emitters: logger.error("No directories to
\* watch"); return
CheckEmitters ==
    /\ env.layer \in {"runner", "service"}
    /\ lpc = "check"
    /\ IF watchers[watcher].emitters = {}
       THEN /\ log' = log \cup {"No directories to watch"}
            /\ lpc' = "returned"
       ELSE /\ lpc' = "start"
            /\ UNCHANGED log
    /\ UNCHANGED <<env, directories, pending, spc, watchers, watcher,
                   _is_watching, stop_event, ret>>
    /\ UNCHANGED <<engineVars, toolVars>>

\* watcher.start(), and logger.info("Daemon started") / ("Service
\* started") in run_watcher and SvcDoRun; an exception ends the function
CallStart ==
    /\ env.layer \in Stepwise
    /\ lpc = "start"
    /\ \/ /\ watchers[watcher].thread = "new"
          /\ watchers' = [watchers EXCEPT ![watcher] = StartReturns(@)]
          /\ log' = IF env.layer = "cli" THEN log ELSE log \cup {"started"}
          /\ lpc' = "wait"
       \/ /\ watchers[watcher].thread # "new" \/ watchers[watcher].emitters # {}
          /\ watchers' = [watchers EXCEPT ![watcher] = StartRaises(@)]
          /\ lpc' = "crashed"
          /\ UNCHANGED log
    /\ UNCHANGED <<env, directories, pending, spc, watcher, _is_watching,
                   stop_event, ret>>
    /\ UNCHANGED <<engineVars, toolVars>>

\* the wait ends: Ctrl+C in cmd_watch, the stop event elsewhere (the
\* service's event resets itself when a wait is released); run_watcher and
\* SvcDoRun then log "Daemon stopping" / "Service stopping"
Wake ==
    /\ env.layer \in Stepwise
    /\ lpc = "wait"
    /\ env.layer # "cli" => stop_event
    /\ stop_event' = IF env.layer = "service" THEN FALSE ELSE stop_event
    /\ log' = IF env.layer = "cli" THEN log ELSE log \cup {"stopping"}
    /\ lpc' = "stop"
    /\ UNCHANGED <<env, directories, pending, spc, watchers, watcher,
                   _is_watching, ret>>
    /\ UNCHANGED <<engineVars, toolVars>>

\* watcher.stop() is entered
CallStop ==
    /\ env.layer \in Stepwise
    /\ lpc = "stop"
    /\ watchers' = [watchers EXCEPT ![watcher] = StopEnter(@, "main")]
    /\ lpc' = "in_stop"
    /\ UNCHANGED <<env, directories, pending, spc, watcher, _is_watching,
                   stop_event, log, ret>>
    /\ UNCHANGED <<engineVars, toolVars>>

\* watcher.stop() is left and the function returns
LeaveStop ==
    /\ env.layer \in Stepwise
    /\ lpc = "in_stop"
    /\ watchers' = [watchers EXCEPT ![watcher] = StopLeave(@, "main")]
    /\ lpc' = IF watchers[watcher].thread = "new" THEN "crashed" ELSE "returned"
    /\ ret' = IF env.layer = "cli" /\ watchers[watcher].thread # "new"
              THEN "0" ELSE ret
    /\ UNCHANGED <<env, directories, pending, spc, watcher, _is_watching,
                   stop_event, log>>
    /\ UNCHANGED <<engineVars, toolVars>>

(***************************************************************************)
(* The request to stop: SIGTERM to the daemon, SvcStop in the service's    *)
(* control thread.                                                         *)
(***************************************************************************)
\* handle_sigterm: stop_event.set()
Sigterm ==
    /\ env.layer = "runner"
    /\ spc = "idle"
    /\ stop_event' = TRUE
    /\ spc' = "done"
    /\ UNCHANGED <<env, directories, pending, lpc, watchers, watcher,
                   _is_watching, log, ret>>
    /\ UNCHANGED <<engineVars, toolVars>>

\* SvcStop: win32event.SetEvent(self.stop_event)
SvcStopSetEvent ==
    /\ env.layer = "service"
    /\ spc = "idle"
    /\ stop_event' = TRUE
    /\ spc' = "check"
    /\ UNCHANGED <<env, directories, pending, lpc, watchers, watcher,
                   _is_watching, log, ret>>
    /\ UNCHANGED <<engineVars, toolVars>>

\* SvcStop: if self.watcher: self.watcher.stop() is entered
SvcStopCallStop ==
    /\ env.layer = "service"
    /\ spc = "check"
    /\ IF watcher # 0
       THEN /\ watchers' = [watchers EXCEPT ![watcher] = StopEnter(@, "ctl")]
            /\ spc' = "in_stop"
       ELSE /\ spc' = "done"
            /\ UNCHANGED watchers
    /\ UNCHANGED <<env, directories, pending, lpc, watcher, _is_watching,
                   stop_event, log, ret>>
    /\ UNCHANGED <<engineVars, toolVars>>

\* SvcStop: self.watcher.stop() is left
SvcStopLeaveStop ==
    /\ env.layer = "service"
    /\ spc = "in_stop"
    /\ watchers' = [watchers EXCEPT ![watcher] = StopLeave(@, "ctl")]
    /\ spc' = "done"
    /\ UNCHANGED <<env, directories, pending, lpc, watcher, _is_watching,
                   stop_event, log, ret>>
    /\ UNCHANGED <<engineVars, toolVars>>

(***************************************************************************)
(* The menu-bar app.  Its handlers run one at a time on the main thread.   *)
(***************************************************************************)
\* _get_all_directories()
_get_all_directories ==
    get_default_directories \o ResolveAll(env.config_directories)

\* variant of the body below that keeps the watcher the app already holds
OnStartReusing(ok) ==
    LET w0 == IF watcher = 0
              THEN WatchAll(NewWatcher, _get_all_directories)
              ELSE WatchAll(watchers[watcher], _get_all_directories)
        w1 == IF ok THEN StartReturns(w0) ELSE StartRaises(w0)
    IN  /\ ok \/ w0.emitters # {} \/ w0.thread # "new"
        /\ ok => w0.thread = "new"
        /\ watcher = 0 => Len(watchers) < MaxSessions
        /\ watchers' = IF watcher = 0 THEN Append(watchers, w1)
                       ELSE [watchers EXCEPT ![watcher] = w1]
        /\ watcher' = IF watcher = 0 THEN Len(watchers) + 1 ELSE watcher
        /\ directories' = _get_all_directories
        /\ _is_watching' = ok

\* _on_start past its guard: a new DirectoryWatcher, every candidate that
\* is a directory registered, start(), _is_watching = True; when start()
\* raises the flag is not set
OnStartBody(ok) ==
    LET w0 == WatchAll(NewWatcher, _get_all_directories)
    IN  /\ ok \/ w0.emitters # {}
        /\ Len(watchers) < MaxSessions
        /\ watchers' = Append(watchers,
                              IF ok THEN StartReturns(w0) ELSE StartRaises(w0))
        /\ watcher' = Len(watchers) + 1
        /\ directories' = _get_all_directories
        /\ _is_watching' = ok

\* variant of the body below that leaves the flag set
OnStopKeepsFlag ==
    /\ watchers' = IF watcher # 0
                   THEN [watchers EXCEPT ![watcher] = StopCall(@, "main")]
                   ELSE watchers
    /\ watcher' = 0
    /\ UNCHANGED _is_watching

\* _on_stop past its guard: stop() on the watcher held, which is dropped
OnStopBody ==
    /\ watchers' = IF watcher # 0
                   THEN [watchers EXCEPT ![watcher] = StopCall(@, "main")]
                   ELSE watchers
    /\ watcher' = 0
    /\ _is_watching' = FALSE

\* run_app: app._on_start(app._start_item), then app.run()
AppLaunch ==
    /\ env.layer = "app"
    /\ lpc = "init"
    /\ \E ok \in BOOLEAN :
           /\ OnStartBody(ok)
           /\ lpc' = IF ok THEN "menu" ELSE "crashed"
    /\ UNCHANGED <<env, pending, spc, stop_event, log, ret>>
    /\ UNCHANGED <<engineVars, toolVars>>

\* _on_start
AppOnStart ==
    /\ env.layer = "app"
    /\ lpc = "menu"
    /\ IF _is_watching
       THEN UNCHANGED <<watchers, watcher, directories, _is_watching>>
       ELSE \E ok \in BOOLEAN : OnStartBody(ok)
    /\ UNCHANGED <<env, pending, lpc, spc, stop_event, log, ret>>
    /\ UNCHANGED <<engineVars, toolVars>>

\* _on_stop
AppOnStop ==
    /\ env.layer = "app"
    /\ lpc = "menu"
    /\ IF ~_is_watching
       THEN UNCHANGED <<watchers, watcher, _is_watching>>
       ELSE OnStopBody
    /\ UNCHANGED <<env, directories, pending, lpc, spc, stop_event, log, ret>>
    /\ UNCHANGED <<engineVars, toolVars>>

\* _on_quit
AppOnQuit ==
    /\ env.layer = "app"
    /\ lpc = "menu"
    /\ IF _is_watching
       THEN OnStopBody
       ELSE UNCHANGED <<watchers, watcher, _is_watching>>
    /\ lpc' = "quit"
    /\ UNCHANGED <<env, directories, pending, spc, stop_event, log, ret>>
    /\ UNCHANGED <<engineVars, toolVars>>

(***************************************************************************)
(* What a layer is run with.                                               *)
(***************************************************************************)
SeqsUpTo(S, n) == UNION {[1..k -> S] : k \in 0..n}

\* the desktop lookup answers the desktop directory, the home directory, or
\* raises; the other lookups raise
LayerLookups ==
    {[f \in XdgNames |-> IF f = "user_desktop_dir" THEN r ELSE "raise"] :
        r \in {Desktop, Home, "raise"}}

\* every answer of every lookup
AllLookups == [XdgNames -> LookupResults]

DirSets == SUBSET LayerPaths

LayerEnvs ==
    {[layer |-> l, lookup |-> lk, is_dir |-> D, config_directories |-> c,
      arg_dirs |-> a, only |-> o, cwd |-> Home] :
        l \in Layers, lk \in LayerLookups, D \in DirSets,
        c \in SeqsUpTo(DirStrings, MaxList),
        a \in SeqsUpTo(DirStrings, MaxList), o \in BOOLEAN}

LayerStart ==
    /\ directories = <<>>
    /\ pending = <<>>
    /\ lpc = "init"
    /\ spc = "idle"
    /\ watchers = <<>>
    /\ watcher = 0
    /\ _is_watching = FALSE
    /\ stop_event = FALSE
    /\ log = {}
    /\ ret = "none"

\* only cmd_watch has a command line
LayerInit ==
    /\ EngineInit
    /\ NoTools
    /\ env \in LayerEnvs
    /\ env.layer # "cli" => (env.arg_dirs = <<>> /\ ~env.only)
    /\ LayerStart

LayerNext ==
    \/ BuildDirectories
    \/ ExtendDirectories
    \/ Construct
    \/ LoopStep
    \/ CheckEmitters
    \/ CallStart
    \/ Wake
    \/ CallStop
    \/ LeaveStop
    \/ Sigterm
    \/ SvcStopSetEvent
    \/ SvcStopCallStop
    \/ SvcStopLeaveStop
    \/ AppLaunch
    \/ AppOnStart
    \/ AppOnStop
    \/ AppOnQuit

SpecLayers == LayerInit /\ [][LayerNext]_vars

(***************************************************************************)
(* run_watcher under run_as_daemon: the main thread and the SIGTERM        *)
(* handler.  The main thread is never held up for ever: each of its        *)
(* statements ends, the wait once the event is set, and the join() inside  *)
(* stop() once the observer's thread has left its loop, which it does on   *)
(* the sentinel that stop() queued.                                        *)
(***************************************************************************)
RunnerInit ==
    /\ LayerInit
    /\ env.layer = "runner"

RunnerMain ==
    \/ BuildDirectories
    \/ ExtendDirectories
    \/ Construct
    \/ LoopStep
    \/ CheckEmitters
    \/ CallStart
    \/ Wake
    \/ CallStop
    \/ LeaveStop

RunnerNext ==
    \/ BuildDirectories
    \/ ExtendDirectories
    \/ Construct
    \/ LoopStep
    \/ CheckEmitters
    \/ CallStart
    \/ Wake
    \/ CallStop
    \/ LeaveStop
    \/ Sigterm

SpecRunner == RunnerInit /\ [][RunnerNext]_vars /\ WF_vars(RunnerMain)

(***************************************************************************)
(* get_default_directories() under every answer of the lookups.            *)
(***************************************************************************)
DefaultsInit ==
    /\ EngineInit
    /\ NoTools
    /\ env \in {[layer |-> "runner", lookup |-> lk, is_dir |-> D,
                 config_directories |-> <<>>, arg_dirs |-> <<>>,
                 only |-> FALSE, cwd |-> Home] :
                    lk \in AllLookups, D \in DirSets}
    /\ LayerStart

DefaultsNext == BuildDirectories

SpecDefaults == DefaultsInit /\ [][DefaultsNext]_vars

(***************************************************************************)
(* The configuration file: save_config and load_config.  A string is the   *)
(* sequence of its characters; the text of the file is the sequence of the *)
(* characters and marks tomli_w writes and tomllib reads.                  *)
(***************************************************************************)
MaxDirs == 2        \* entries in the directories list of a Config

Quote == "\""
Backslash == "\\"
\* a lone surrogate, as a file name that is not UTF-8 has in its str form
Surrogate == "\\udcff"

\* the directory strings of the model
DirectoryStrings ==
    {<<"a">>, <<"a", Quote>>, <<Backslash>>, <<Backslash, Quote, "a">>,
     <<Surrogate>>}

DirectoryLists == SeqsUpTo(DirectoryStrings, MaxDirs)

\* marks of the text: the beginning and the end of the array, the comma
\* after an element, and a line that sets some other key
KeyOpen == "directories = ["
Close == "]"
Comma == ","
OtherLine == "other = 1"

\* tomli_w: a basic string's quote and backslash are written behind a
\* backslash
RECURSIVE Escape(_)
Escape(str) ==
    IF str = <<>> THEN <<>>
    ELSE (IF Head(str) \in {Quote, Backslash}
          THEN <<Backslash, Head(str)>> ELSE <<Head(str)>>) \o Escape(Tail(str))

\* chunk.encode(): UTF-8 has no encoding of a lone surrogate
Encodable(str) == \A i \in 1..Len(str) : str[i] # Surrogate

\* tomli_w.dumps of {"directories": dirs}
RECURSIVE DumpItems(_)
DumpItems(dirs) ==
    IF dirs = <<>> THEN <<>>
    ELSE <<Quote>> \o Escape(Head(dirs)) \o <<Quote, Comma>>
            \o DumpItems(Tail(dirs))

toml_dumps(dirs) == <<KeyOpen>> \o DumpItems(dirs) \o <<Close>>

ParseFail == [ok |-> FALSE, value |-> <<>>, rest |-> <<>>]

\* tomllib: a basic string, read from behind its opening quote up to its
\* closing quote; a backslash takes the character behind it
RECURSIVE ParseString(_, _)
ParseString(t, acc) ==
    IF t = <<>> THEN ParseFail
    ELSE IF Head(t) = Quote THEN [ok |-> TRUE, value |-> acc, rest |-> Tail(t)]
    ELSE IF Head(t) = Backslash
    THEN IF Len(t) >= 2 /\ t[2] \in {Quote, Backslash}
         THEN ParseString(Tail(Tail(t)), Append(acc, t[2]))
         ELSE ParseFail
    ELSE IF Head(t) \in {Comma, Close, KeyOpen, OtherLine} THEN ParseFail
    ELSE ParseString(Tail(t), Append(acc, Head(t)))

\* tomllib: the elements of an array up to its end, which ends the text
RECURSIVE ParseArray(_, _)
ParseArray(t, acc) ==
    IF t = <<>> THEN ParseFail
    ELSE IF Head(t) = Close
    THEN (IF Tail(t) = <<>> THEN [ok |-> TRUE, value |-> acc, rest |-> <<>>]
          ELSE ParseFail)
    ELSE IF Head(t) = Quote
    THEN LET r == ParseString(Tail(t), <<>>)
         IN  IF r.ok /\ r.rest # <<>> /\ Head(r.rest) = Comma
             THEN ParseArray(Tail(r.rest), Append(acc, r.value))
             ELSE ParseFail
    ELSE ParseFail

\* tomllib.load followed by data.get("directories", [])
RECURSIVE toml_loads(_)
toml_loads(text) ==
    IF text = <<>> THEN [ok |-> TRUE, value |-> <<>>, rest |-> <<>>]
    ELSE IF Head(text) = OtherLine THEN toml_loads(Tail(text))
    ELSE IF Head(text) = KeyOpen THEN ParseArray(Tail(text), <<>>)
    ELSE ParseFail

\* save_config(config, config_path): the file is opened for writing, which
\* empties it, and the text is written; nothing is written when the text
\* cannot be encoded
save_config(dirs) ==
    /\ file' = IF \A i \in 1..Len(dirs) : Encodable(dirs[i])
               THEN FileOf(toml_dumps(dirs)) ELSE FileOf(<<>>)
    /\ saved' = Saved(dirs)
    /\ cfg_last' = CfgResult("save",
                             IF \A i \in 1..Len(dirs) : Encodable(dirs[i])
                             THEN "none" ELSE "UnicodeEncodeError", dirs)
    /\ UNCHANGED config_path
    /\ UNCHANGED <<engineVars, layerVars, logVars, daemonVars>>

\* variant of load_config below that takes a missing file for an empty
\* configuration whatever the path
load_config_lenient ==
    /\ cfg_last' =
           IF ~file.exists THEN CfgResult("load", "none", <<>>)
           ELSE IF ~toml_loads(file.text).ok
           THEN CfgResult("load", "TOMLDecodeError", <<>>)
           ELSE CfgResult("load", "none", toml_loads(file.text).value)
    /\ UNCHANGED <<config_path, file, saved>>
    /\ UNCHANGED <<engineVars, layerVars, logVars, daemonVars>>

\* load_config(config_path)
load_config ==
    /\ cfg_last' =
           IF ~file.exists
           THEN (IF config_path = "None" THEN CfgResult("load", "none", <<>>)
                 ELSE CfgResult("load", "FileNotFoundError", <<>>))
           ELSE IF ~toml_loads(file.text).ok
           THEN CfgResult("load", "TOMLDecodeError", <<>>)
           ELSE CfgResult("load", "none", toml_loads(file.text).value)
    /\ UNCHANGED <<config_path, file, saved>>
    /\ UNCHANGED <<engineVars, layerVars, logVars, daemonVars>>

\* the user removes the file, empties it, or leaves one other key in it
UserEdits(f) ==
    /\ file # f
    /\ file' = f
    /\ saved' = NotSaved
    /\ cfg_last' = CfgResult("edit", "none", <<>>)
    /\ UNCHANGED config_path
    /\ UNCHANGED <<engineVars, layerVars, logVars, daemonVars>>

ConfigInit ==
    /\ EngineInit
    /\ NoLayer
    /\ NoLogging
    /\ NoDaemon
    /\ config_path \in {"None", "explicit"}
    /\ file = Absent
    /\ saved = NotSaved
    /\ cfg_last = CfgResult("none", "none", <<>>)

ConfigNext ==
    \/ \E dirs \in DirectoryLists : save_config(dirs)
    \/ load_config
    \/ \E f \in {Absent, FileOf(<<>>), FileOf(<<OtherLine>>)} : UserEdits(f)

SpecConfig == ConfigInit /\ [][ConfigNext]_vars

(***************************************************************************)
(* "housekeeper dirs add PATH" and "dirs remove PATH" (main.py): each      *)
(* command loads the configuration, changes the list and saves it          *)
(***************************************************************************)

\* a path that is a link to the directory "a"
LinkStr == <<"l">>

\* str(path.resolve()) of the PATH argument
ResolveStr(p) == IF p = LinkStr THEN <<"a">> ELSE p

\* the PATH arguments, and the strings a configuration file may list
DirArgs == DirectoryStrings \cup {LinkStr}

\* how a dirs command ended: the exit code ("none" when it raised), the
\* exception, the PATH it was given and config.directories at its end
DirsResult(op, code, raised, arg, dirs) ==
    [op |-> op, ret |-> code, raised |-> raised, arg |-> arg,
     directories |-> dirs]

\* main(): config = load_config(args.config), with its outcomes: the
\* list, the "Config not found" return for a missing file at a path that
\* was given, or the TOMLDecodeError
LoadedOk == file.exists => toml_loads(file.text).ok
Loaded ==
    IF file.exists /\ toml_loads(file.text).ok
    THEN toml_loads(file.text).value ELSE <<>>
LoadEnds(op, arg) ==
    IF ~file.exists /\ config_path # "None"
    THEN DirsResult(op, "1", "none", arg, <<>>)
    ELSE DirsResult(op, "none", "TOMLDecodeError", arg, <<>>)
LoadGoesOn == (file.exists \/ config_path = "None") /\ LoadedOk

\* list.remove(x): the list without the first element equal to x
RECURSIVE RemoveFirst(_, _)
RemoveFirst(dirs, x) ==
    IF dirs = <<>> THEN <<>>
    ELSE IF Head(dirs) = x THEN Tail(dirs)
    ELSE <<Head(dirs)>> \o RemoveFirst(Tail(dirs), x)

\* what save_config(config, config_path) leaves in the file
Written(dirs) ==
    IF \A i \in 1..Len(dirs) : Encodable(dirs[i])
    THEN FileOf(toml_dumps(dirs)) ELSE FileOf(<<>>)
WriteRaises(dirs) == \E i \in 1..Len(dirs) : ~Encodable(dirs[i])

\* the end of cmd_dirs_add and cmd_dirs_remove: save_config, return 0
SaveAndReturn(op, arg, dirs) ==
    /\ file' = Written(dirs)
    /\ saved' = Saved(dirs)
    /\ cfg_last' = IF WriteRaises(dirs)
                   THEN DirsResult(op, "none", "UnicodeEncodeError", arg, dirs)
                   ELSE DirsResult(op, "0", "none", arg, dirs)

\* variant of the command below without the test for a path in the list
cmd_dirs_add_unchecked(path) ==
    /\ IF ~LoadGoesOn
       THEN /\ cfg_last' = LoadEnds("add", path)
            /\ UNCHANGED <<file, saved>>
       ELSE SaveAndReturn("add", path, Append(Loaded, ResolveStr(path)))
    /\ UNCHANGED config_path
    /\ UNCHANGED <<engineVars, layerVars, logVars, daemonVars>>

\* "dirs add PATH": main() loads the configuration and cmd_dirs_add
\* returns 1 for a resolved path in the list, else appends it and saves
cmd_dirs_add(path) ==
    /\ IF ~LoadGoesOn
       THEN /\ cfg_last' = LoadEnds("add", path)
            /\ UNCHANGED <<file, saved>>
       ELSE IF ResolveStr(path) \in Range(Loaded)
       THEN /\ cfg_last' = DirsResult("add", "1", "none", path, Loaded)
            /\ UNCHANGED <<file, saved>>
       ELSE SaveAndReturn("add", path, Append(Loaded, ResolveStr(path)))
    /\ UNCHANGED config_path
    /\ UNCHANGED <<engineVars, layerVars, logVars, daemonVars>>

\* "dirs remove PATH": main() loads the configuration and cmd_dirs_remove
\* returns 1 for a resolved path not in the list, else removes it and saves
cmd_dirs_remove(path) ==
    /\ IF ~LoadGoesOn
       THEN /\ cfg_last' = LoadEnds("remove", path)
            /\ UNCHANGED <<file, saved>>
       ELSE IF ResolveStr(path) \notin Range(Loaded)
       THEN /\ cfg_last' = DirsResult("remove", "1", "none", path, Loaded)
            /\ UNCHANGED <<file, saved>>
       ELSE SaveAndReturn("remove", path, RemoveFirst(Loaded, ResolveStr(path)))
    /\ UNCHANGED config_path
    /\ UNCHANGED <<engineVars, layerVars, logVars, daemonVars>>

\* no configuration file, or one that lists directories without a repeat,
\* as a user or an earlier save has written it
DirsInit ==
    /\ EngineInit
    /\ NoLayer
    /\ NoLogging
    /\ NoDaemon
    /\ config_path \in {"None", "explicit"}
    /\ file \in {Absent} \cup
                {FileOf(toml_dumps(dirs)) :
                    dirs \in {d \in SeqsUpTo(DirArgs \ {<<Surrogate>>}, MaxDirs) :
                                 NoRepeats(d)}}
    /\ saved = NotSaved
    /\ cfg_last = DirsResult("none", "none", "none", <<>>, <<>>)

DirsNext ==
    \/ \E path \in DirArgs : cmd_dirs_add(path)
    \/ \E path \in DirArgs : cmd_dirs_remove(path)

SpecDirs == DirsInit /\ [][DirsNext]_vars

(***************************************************************************)
(* The application logger: setup_logging, and a message passed to the      *)
(* logger, which each of its handlers writes to its stream when the        *)
(* message's level reaches the handler's.  The message is known by its     *)
(* place in sent.                                                          *)
(***************************************************************************)
MaxMessages == 2    \* messages passed to the logger

LogLevels == {DEBUG, INFO, WARNING}

\* logging.StreamHandler() and RotatingFileHandler(log_file), setLevel(level)
ConsoleHandler(level) == [kind |-> "console", level |-> level, stream |-> "console"]
FileHandler(level, log_file) == [kind |-> "file", level |-> level, stream |-> log_file]

\* the handlers setup_logging attaches to a logger that has none
NewHandlers(level, log_file) ==
    <<ConsoleHandler(level)>>
        \o (IF log_file # "None" THEN <<FileHandler(level, log_file)>> ELSE <<>>)

\* variant of setup_logging below without the test of logger.handlers
setup_logging_again(level, log_file) ==
    /\ logger' = [level |-> level,
                  handlers |-> logger.handlers \o NewHandlers(level, log_file)]
    /\ UNCHANGED <<streams, sent>>
    /\ UNCHANGED <<engineVars, layerVars, cfgVars, daemonVars>>

\* setup_logging(level, log_file): the level is set; a logger that has
\* handlers is returned as it is
setup_logging(level, log_file) ==
    /\ logger' = [level |-> level,
                  handlers |-> IF logger.handlers # <<>> THEN logger.handlers
                               ELSE NewHandlers(level, log_file)]
    /\ UNCHANGED <<streams, sent>>
    /\ UNCHANGED <<engineVars, layerVars, cfgVars, daemonVars>>

\* Logger.callHandlers: the handlers in their order
RECURSIVE Emit(_, _, _, _)
Emit(hs, st, id, level) ==
    IF hs = <<>> THEN st
    ELSE Emit(Tail(hs),
              IF level >= Head(hs).level
              THEN [st EXCEPT ![Head(hs).stream] = Append(@, id)] ELSE st,
              id, level)

\* logger.debug(...) / info(...) / warning(...) once logging is set up; a message
\* below the logger's level is dropped by the logger
Log(level) ==
    /\ logger.level # NOTSET
    /\ Len(sent) < MaxMessages
    /\ level >= logger.level
    /\ sent' = Append(sent, [level |-> level, handlers |-> logger.handlers])
    /\ streams' = Emit(logger.handlers, streams, Len(sent) + 1, level)
    /\ UNCHANGED logger
    /\ UNCHANGED <<engineVars, layerVars, cfgVars, daemonVars>>

LoggingInit ==
    /\ EngineInit
    /\ NoLayer
    /\ NoConfig
    /\ NoDaemon
    /\ NoLogging

LoggingNext ==
    \/ \E level \in LogLevels, log_file \in {"None"} \cup LogFiles :
           setup_logging(level, log_file)
    \/ \E level \in LogLevels : Log(level)

SpecLogging == LoggingInit /\ [][LoggingNext]_vars

(***************************************************************************)
(* The daemon manager: stop_daemon, statement by statement, beside         *)
(* processes that may end at any time.                                     *)
(***************************************************************************)
STOP_TIMEOUT == 10

\* what a PID file may hold
PidTexts == {"1", " 2 ", "garbage", ""}

\* int(pid_file.read_text().strip()); 0 stands for the ValueError
ParsePid(text) ==
    IF text \in {"1", "1\n"} THEN 1
    ELSE IF text \in {" 2 ", "2\n"} THEN 2
    ELSE 0

\* read_pid(): None (0) without a file or with a text that is no number
read_pid == IF pid_file.exists THEN ParsePid(pid_file.text) ELSE 0

\* is_process_running(pid): os.kill(pid, 0) raises OSError when there is no
\* such process and when the process is another user's
is_process_running(pid) == procs[pid] = "own"

\* the call has returned or raised
SdDone(result) == [sd EXCEPT !.pc = "done", !.result = result]

\* variant of the check below that returns False and keeps the file
SdCheckKeepsFile ==
    /\ sd.pc = "check"
    /\ sd' = IF is_process_running(sd.pid)
             THEN [sd EXCEPT !.pc = "kill", !.alive = TRUE]
             ELSE SdDone("False")
    /\ UNCHANGED <<pid_file, procs, sigterms, status, cmds>>
    /\ UNCHANGED <<engineVars, layerVars, cfgVars, logVars>>

\* pid = read_pid(); if pid is None: return False
SdRead ==
    /\ sd.pc = "idle"
    /\ sd' = IF read_pid = 0 THEN SdDone("False")
             ELSE [sd EXCEPT !.pc = "check", !.pid = read_pid]
    /\ UNCHANGED <<pid_file, procs, sigterms, status, cmds>>
    /\ UNCHANGED <<engineVars, layerVars, cfgVars, logVars>>

\* if not is_process_running(pid): remove_pid_file(); return False
SdCheck ==
    /\ sd.pc = "check"
    /\ IF is_process_running(sd.pid)
       THEN /\ sd' = [sd EXCEPT !.pc = "kill", !.alive = TRUE]
            /\ UNCHANGED pid_file
       ELSE /\ sd' = SdDone("False")
            /\ pid_file' = NoPidFile
    /\ UNCHANGED <<procs, sigterms, status, cmds>>
    /\ UNCHANGED <<engineVars, layerVars, cfgVars, logVars>>

\* os.kill(pid, signal.SIGTERM); on OSError: remove_pid_file(); return
\* False; start_time = time.monotonic()
SdKill ==
    /\ sd.pc = "kill"
    /\ IF procs[sd.pid] = "own"
       THEN /\ sigterms' = Append(sigterms, sd.pid)
            /\ sd' = [sd EXCEPT !.pc = "loop", !.clock = 0]
            /\ UNCHANGED pid_file
       ELSE /\ sd' = SdDone("False")
            /\ pid_file' = NoPidFile
            /\ UNCHANGED sigterms
    /\ UNCHANGED <<procs, status, cmds>>
    /\ UNCHANGED <<engineVars, layerVars, cfgVars, logVars>>

\* variant of the loop below that returns True when the time is over
SdLoopGivesUp ==
    /\ sd.pc = "loop"
    /\ IF ~is_process_running(sd.pid) \/ sd.clock > STOP_TIMEOUT
       THEN /\ sd' = SdDone("True")
            /\ pid_file' = NoPidFile
       ELSE /\ \E d \in {0, 1} : sd' = [sd EXCEPT !.clock = @ + d]
            /\ UNCHANGED pid_file
    /\ UNCHANGED <<procs, sigterms, status, cmds>>
    /\ UNCHANGED <<engineVars, layerVars, cfgVars, logVars>>

\* one turn of "while is_process_running(pid)": TimeoutError when more
\* than the timeout has passed, else time.sleep(0.1), after which the
\* clock shows the same second or the next; when the loop ends:
\* remove_pid_file(); return True
SdLoop ==
    /\ sd.pc = "loop"
    /\ IF ~is_process_running(sd.pid)
       THEN /\ sd' = SdDone("True")
            /\ pid_file' = NoPidFile
       ELSE IF sd.clock > STOP_TIMEOUT
       THEN /\ sd' = SdDone("TimeoutError")
            /\ UNCHANGED pid_file
       ELSE /\ \E d \in {0, 1} : sd' = [sd EXCEPT !.clock = @ + d]
            /\ UNCHANGED pid_file
    /\ UNCHANGED <<procs, sigterms, status, cmds>>
    /\ UNCHANGED <<engineVars, layerVars, cfgVars, logVars>>

\* a process ends, of itself or on the SIGTERM it was sent, while
\* stop_daemon is being called
ProcExit(p) ==
    /\ sd.pc # "done"
    /\ procs[p] # "none"
    /\ procs' = [procs EXCEPT ![p] = "none"]
    /\ UNCHANGED <<pid_file, sigterms, sd, status, cmds>>
    /\ UNCHANGED <<engineVars, layerVars, cfgVars, logVars>>

\* what get_daemon_status returns: (False, None) without a PID that can be
\* read or when no process answers to it, else (True, pid)
StatusResult ==
    IF read_pid # 0 /\ is_process_running(read_pid)
    THEN [running |-> TRUE, pid |-> read_pid]
    ELSE [running |-> FALSE, pid |-> 0]

\* the PID file after get_daemon_status: remove_pid_file() is reached only
\* with a PID that was read and that no process answers to
StatusLeaves ==
    IF read_pid # 0 /\ ~is_process_running(read_pid)
    THEN NoPidFile
    ELSE pid_file

\* a get_daemon_status() call, before, during or after stop_daemon
get_daemon_status ==
    /\ status' = [called |-> TRUE,
                  running |-> StatusResult.running,
                  pid |-> StatusResult.pid,
                  after |-> sd.result]
    /\ pid_file' = StatusLeaves
    /\ UNCHANGED <<procs, sigterms, sd, cmds>>
    /\ UNCHANGED <<engineVars, layerVars, cfgVars, logVars>>

DaemonInit ==
    /\ EngineInit
    /\ NoLayer
    /\ NoConfig
    /\ NoLogging
    /\ pid_file \in {NoPidFile} \cup {PidFileOf(t) : t \in PidTexts}
    /\ procs \in [Pids -> {"none", "own", "foreign"}]
    /\ sigterms = <<>>
    /\ sd = SdIdle
    /\ status = NoStatus
    /\ cmds = [c \in Cmds |-> CmdIdle]

DaemonNext ==
    \/ SdRead
    \/ SdCheck
    \/ SdKill
    \/ SdLoop
    \/ \E p \in Pids : ProcExit(p)
    \/ get_daemon_status

SpecDaemon == DaemonInit /\ [][DaemonNext]_vars

(***************************************************************************)
(* "housekeeper daemon start" on Unix (main.py cmd_daemon_start,           *)
(* daemon/unix.py): commands given side by side, the subprocesses they     *)
(* spawn, and the PID file those take as their lock                        *)
(***************************************************************************)

\* for _ in range(50)
POLLS == 50

\* what the daemon writes into the PID file it creates: its PID and a
\* newline
WritePid(p) == IF p = 1 THEN "1\n" ELSE "2\n"

\* the PIDs no process has
FreePids == {p \in Pids : procs[p] = "none"}

\* the command is over with an exit code, or with the exception it raised
CmdDone(c, code) == [cmds EXCEPT ![c].pc = "done", ![c].ret = code]

\* variant of the step below that goes on to spawn whatever the status
StartStatusIgnored(c) ==
    /\ cmds[c].pc = "status"
    /\ cmds' = [cmds EXCEPT ![c].pc = "spawn",
                            ![c].seen = StatusResult.running]
    /\ pid_file' = StatusLeaves
    /\ UNCHANGED <<procs, sigterms, sd, status>>
    /\ UNCHANGED <<engineVars, layerVars, cfgVars, logVars>>

\* running, pid = get_daemon_status(); if running: return 1
StartStatus(c) ==
    /\ cmds[c].pc = "status"
    /\ cmds' = IF StatusResult.running
               THEN [CmdDone(c, "1") EXCEPT ![c].seen = TRUE]
               ELSE [cmds EXCEPT ![c].pc = "spawn"]
    /\ pid_file' = StatusLeaves
    /\ UNCHANGED <<procs, sigterms, sd, status>>
    /\ UNCHANGED <<engineVars, layerVars, cfgVars, logVars>>

\* subprocess.Popen([sys.executable, "-m", "housekeeper.daemon.runner"]):
\* the new process gets a PID that no process has; without one Popen
\* raises OSError
StartSpawn(c) ==
    /\ cmds[c].pc = "spawn"
    /\ IF FreePids = {}
       THEN /\ cmds' = CmdDone(c, "OSError")
            /\ UNCHANGED procs
       ELSE \E p \in FreePids :
            /\ procs' = [procs EXCEPT ![p] = "own"]
            /\ cmds' = [cmds EXCEPT ![c].pc = "poll", ![c].spawned = TRUE,
                                    ![c].child = p]
    /\ UNCHANGED <<pid_file, sigterms, sd, status>>
    /\ UNCHANGED <<engineVars, layerVars, cfgVars, logVars>>

\* one turn of the loop of start_daemon_subprocess: time.sleep(0.1), then
\* return the PID when the file exists, holds a number and that process
\* runs; return None after the last turn, and cmd_daemon_start returns 0
\* for a PID and 1 for None
StartPoll(c) ==
    /\ cmds[c].pc = "poll"
    /\ cmds' = IF read_pid # 0 /\ is_process_running(read_pid)
               THEN [CmdDone(c, "0") EXCEPT ![c].found = read_pid,
                                            ![c].polls = @ + 1]
               ELSE IF cmds[c].polls + 1 = POLLS
               THEN [CmdDone(c, "1") EXCEPT ![c].polls = @ + 1]
               ELSE [cmds EXCEPT ![c].polls = @ + 1]
    /\ UNCHANGED <<pid_file, procs, sigterms, sd, status>>
    /\ UNCHANGED <<engineVars, layerVars, cfgVars, logVars>>

\* run_as_daemon in the spawned process: "with context" takes the PID
\* file as its lock, which creates the file with the PID in it and is
\* possible only while there is no such file
DaemonAcquire(c) ==
    /\ cmds[c].child # 0
    /\ ~pid_file.exists
    /\ pid_file' = PidFileOf(WritePid(cmds[c].child))
    /\ cmds' = [cmds EXCEPT ![c].child = 0]
    /\ UNCHANGED <<procs, sigterms, sd, status>>
    /\ UNCHANGED <<engineVars, layerVars, cfgVars, logVars>>

\* the daemon that holds the PID file leaves "with context" (run_watcher
\* returned): the file is removed and the process ends
DaemonRelease(p) ==
    /\ procs[p] = "own"
    /\ \A c \in Cmds : cmds[c].child # p
    /\ pid_file = PidFileOf(WritePid(p))
    /\ pid_file' = NoPidFile
    /\ procs' = [procs EXCEPT ![p] = "none"]
    /\ UNCHANGED <<sigterms, sd, status, cmds>>
    /\ UNCHANGED <<engineVars, layerVars, cfgVars, logVars>>

\* a process is killed, a spawned one that waits for the PID file
\* included; the PID file stays as it is
ProcKilled(p) ==
    /\ procs[p] # "none"
    /\ procs' = [procs EXCEPT ![p] = "none"]
    /\ cmds' = [c \in Cmds |->
                   IF cmds[c].child = p THEN [cmds[c] EXCEPT !.child = 0]
                   ELSE cmds[c]]
    /\ UNCHANGED <<pid_file, sigterms, sd, status>>
    /\ UNCHANGED <<engineVars, layerVars, cfgVars, logVars>>

\* any PID file, at most one process, and the commands given
StartInit ==
    /\ EngineInit
    /\ NoLayer
    /\ NoConfig
    /\ NoLogging
    /\ pid_file \in {NoPidFile} \cup {PidFileOf(t) : t \in PidTexts}
    /\ procs \in {f \in [Pids -> {"none", "own", "foreign"}] :
                     \E p \in Pids : f[p] = "none"}
    /\ sigterms = <<>>
    /\ sd = SdIdle
    /\ status = NoStatus
    /\ cmds = [c \in Cmds |-> CmdGiven]

StartNext ==
    \/ \E c \in Cmds : StartStatus(c)
    \/ \E c \in Cmds : StartSpawn(c)
    \/ \E c \in Cmds : StartPoll(c)
    \/ \E c \in Cmds : DaemonAcquire(c)
    \/ \E p \in Pids : DaemonRelease(p)
    \/ \E p \in Pids : ProcKilled(p)

SpecStart == StartInit /\ [][StartNext]_vars

(***************************************************************************)
(* Properties.  They speak of the filesystem's own notion of a parent      *)
(* directory and of the log of callback invocations.                       *)
(***************************************************************************)
DirOf(p) == SubSeq(p, 1, Len(p) - 1)
CreatedPaths == {c.path : c \in created}
CallsOf(h, p) == {i \in 1..Len(calls) : calls[i].h = h /\ calls[i].item = p}
CallCount(h, p) == Cardinality(CallsOf(h, p))
Handled(h, p) == [h |-> h, item |-> p, decoded |-> TRUE] \in handled

C2_ParentIsRoot ==
    \A i \in 1..Len(calls) :
        /\ DirOf(calls[i].path) = calls[i].h._watched_dir
        /\ calls[i].path = calls[i].item
        /\ \A h \in handlers :
               (h._watched_dir # calls[i].h._watched_dir
                    /\ DirOf(calls[i].item) = h._watched_dir)
               => calls[i].h # h

\* nested roots a and a/s are both registered; a/s/x was given to both
\* handlers and only the handler of a/s had its callback invoked
C2_Witness ==
    \E h1, h2 \in handlers : \E p \in CreatedPaths :
        /\ h1._watched_dir = DirA
        /\ h2._watched_dir = DirAS
        /\ DirOf(p) = DirAS
        /\ Handled(h1, p) /\ Handled(h2, p)
        /\ CallCount(h1, p) = 0
        /\ CallCount(h2, p) = 1

(***************************************************************************)
(* C3: once join() has returned inside stop(), and from then on after      *)
(* stop() has returned, the notification thread has terminated: no         *)
(* callback is in progress and no invocation is made, also for items       *)
(* created after stop() returned.                                          *)
(***************************************************************************)
C3_StopJoinsThread ==
    /\ (mpc = "stop_2" \/ stopReturned) => (ThreadTerminated /\ curH = NoHandler)
    /\ \A i \in 1..Len(calls) : ~calls[i].afterStop
    /\ \A c \in created : c.afterStop =>
           \A i \in 1..Len(calls) : calls[i].item # c.path

\* callbacks were delivered, stop() returned, and a direct child of a
\* registered root was created afterwards
C3_Witness ==
    /\ stopReturned
    /\ Len(calls) >= 1
    /\ \E c \in created : \E h \in handlers :
           c.afterStop /\ DirOf(c.path) = h._watched_dir

(***************************************************************************)
(* C4: whenever the calling thread is between calls, is_running() is true  *)
(* exactly when the last of start()/stop() to return was start(): false on *)
(* a fresh engine, true after start() returned, false after stop()         *)
(* returned.                                                               *)
(***************************************************************************)
C4_IsRunningLifecycle ==
    mpc = "idle" => (is_running <=> lastRet = "start")

\* start() returned, then stop() returned, and is_running() is false again
C4_Witness ==
    /\ mpc = "idle"
    /\ lastRet = "stop"
    /\ ~is_running
    /\ ThreadTerminated

(***************************************************************************)
(* C5: is_running() is true exactly when the notification thread is        *)
(* active, at every instant: no callback is delivered while it is false,   *)
(* and it is not true once the thread has terminated.                      *)
(***************************************************************************)
C5_IsRunningAtomic ==
    /\ is_running <=> ThreadAlive
    /\ dpc = "callback" => is_running
    /\ ThreadTerminated => ~is_running

(***************************************************************************)
(* C6, as stated: a start() made after stop() has returned returns         *)
(* normally and leaves the engine Running.                                 *)
(***************************************************************************)
C6_RestartRuns ==
    (stopReturned /\ mpc = "idle" /\ lastCall[1] = "start")
        => (lastCall[2] = "returned" /\ is_running)

(***************************************************************************)
(* C6, amended: after stop() has returned the engine cannot be started     *)
(* again: a following start() raises, the notification thread stays        *)
(* terminated, is_running() stays false, the handlers stay unregistered    *)
(* and nothing is delivered.                                               *)
(***************************************************************************)
C6_NoRestart ==
    stopReturned =>
        /\ ThreadTerminated
        /\ ~is_running
        /\ mpc # "start_1"
        /\ lastCall[1] = "start" => lastCall[2] = "raised"
        /\ \A i \in 1..Len(calls) : ~calls[i].afterStop

\* stop() returned, a root was registered again and start() was called:
\* it raised
C6_Witness ==
    /\ stopReturned
    /\ lastCall = <<"start", "raised">>
    /\ obs_handlers # {}
    /\ em_running # {}

(***************************************************************************)
(* C7: an exception raised by a callback is trapped and does not terminate *)
(* the notification thread.                                                *)
(***************************************************************************)
C7_CallbackErrorTrapped == dpc # "crashed_callback"

(***************************************************************************)
(* C8: a raw event whose path cannot be decoded is discarded by the        *)
(* handler without raising, and the thread goes on.                        *)
(***************************************************************************)
C8_MalformedEventDiscarded ==
    \A r \in handled : ~r.decoded => dpc # "crashed_decode"

(***************************************************************************)
(* C9, as stated: one creation causes the callback to be invoked at most   *)
(* once, also when its directory is registered more than once with the     *)
(* same callback.                                                          *)
(***************************************************************************)
C9_AtMostOncePerCallback ==
    \A cb \in Callbacks : \A p \in CreatedPaths :
        Cardinality({i \in 1..Len(calls) :
                        calls[i].cb = cb /\ calls[i].item = p}) <= 1

(***************************************************************************)
(* C9, amended: one creation causes a callback to be invoked at most once  *)
(* for each registration (watch() call) of the item's directory with that  *)
(* callback, and at most once by any one handler.                          *)
(***************************************************************************)
C9_AtMostOncePerRegistration ==
    \A cb \in Callbacks : \A p \in CreatedPaths :
        /\ Cardinality({i \in 1..Len(calls) :
                           calls[i].cb = cb /\ calls[i].item = p})
             <= Cardinality({h \in handlers :
                                h._on_created = cb /\ h._watched_dir = DirOf(p)})
        /\ \A i, j \in 1..Len(calls) :
               (calls[i].h = calls[j].h /\ calls[i].item = calls[j].item) => i = j

\* a directory registered twice with the same callback: one creation, two
\* invocations
C9_Witness ==
    \E cb \in Callbacks : \E p \in CreatedPaths :
        Cardinality({i \in 1..Len(calls) :
                        calls[i].cb = cb /\ calls[i].item = p}) = 2

(***************************************************************************)
(* C10: when every registered root is distinct and none lies inside        *)
(* another, one direct child has been created in each root and each item   *)
(* has been given to its root's handler, there are exactly as many         *)
(* callback invocations as roots: one per root, carrying the path of the   *)
(* item created in that root.                                              *)
(***************************************************************************)
IndependentRoots ==
    /\ \A h1, h2 \in handlers :
           h1 # h2 => /\ h1._watched_dir # h2._watched_dir
                      /\ ~IsUnder(h1._watched_dir, h2._watched_dir)
    /\ Cardinality(CreatedPaths) = Cardinality(handlers)
    /\ \A h \in handlers :
           \E p \in CreatedPaths : DirOf(p) = h._watched_dir /\ Handled(h, p)

C10_OnePerRoot ==
    IndependentRoots =>
        /\ Len(calls) = Cardinality(handlers)
        /\ \A h \in handlers :
               \E i \in 1..Len(calls) :
                   /\ calls[i].h = h
                   /\ DirOf(calls[i].path) = h._watched_dir
                   /\ calls[i].path \in CreatedPaths
                   /\ \A j \in 1..Len(calls) : calls[j].h = h => j = i

\* two independent roots, one item created in each, two invocations
C10_Witness ==
    /\ IndependentRoots
    /\ Cardinality(handlers) = 2
    /\ Len(calls) = 2

(***************************************************************************)
(* C11: in every callback invocation the item type passed is DIR when the  *)
(* raw event's is_directory flag was set and FILE when it was not.         *)
(***************************************************************************)
C11_TypeFollowsFlag ==
    \A i \in 1..Len(calls) :
        /\ calls[i].type \in {"DIR", "FILE"}
        /\ calls[i].type = "DIR" <=> calls[i].is_directory

\* a created directory and a created file have both been delivered
C11_Witness ==
    \E i, j \in 1..Len(calls) :
        /\ calls[i].is_directory /\ calls[i].type = "DIR"
        /\ ~calls[j].is_directory /\ calls[j].type = "FILE"

(***************************************************************************)
(* C12: while the engine is Running (start() was the last call to return   *)
(* and no call is in progress) its notification thread is alive.           *)
(***************************************************************************)
C12_ThreadAliveWhileRunning ==
    (mpc = "idle" /\ lastRet = "start" /\ is_running) => ThreadAlive

(***************************************************************************)
(* C20: a step changes the registered roots (the handlers scheduled in the *)
(* observer, each with its directory and callback) only when it is a       *)
(* watch() that adds one handler to them, and a watch() leaves the running *)
(* flag as it was.                                                         *)
(***************************************************************************)
C20_RootsChangeOnlyByWatch ==
    [][/\ obs_handlers' # obs_handlers =>
            /\ handlers' # handlers
            /\ obs_handlers \subseteq obs_handlers'
       /\ handlers' # handlers => _running' = _running]_vars

(***************************************************************************)
(* C16: the callbacks invoked for one root follow the order in which the   *)
(* root's items were reported: of two invocations for the same root, the   *)
(* earlier one is for the item reported first (or for the same item), and  *)
(* the only callback that can be in progress is the latest one invoked, so *)
(* every earlier callback has completed.                                   *)
(***************************************************************************)
SeqOf(p) == (CHOOSE c \in created : c.path = p).seq

C16_PerRootOrder ==
    /\ \A i, j \in 1..Len(calls) :
           (i < j /\ calls[i].h._watched_dir = calls[j].h._watched_dir)
               => SeqOf(calls[i].item) <= SeqOf(calls[j].item)
    /\ \A i \in 1..Len(calls) : SeqOf(calls[i].item) > 0
    /\ dpc = "callback" => (calls # <<>> /\ curH = calls[Len(calls)].h)
    /\ dpc # "callback" => curH = NoHandler

\* two items of one root were reported and delivered to the same handler,
\* and the second callback is in progress
C16_Witness ==
    /\ dpc = "callback"
    /\ \E i, j \in 1..Len(calls) :
           /\ i < j
           /\ calls[i].h = calls[j].h
           /\ SeqOf(calls[i].item) < SeqOf(calls[j].item)
           /\ j = Len(calls)

(***************************************************************************)
(* C15: start() does not abort on an engine that has not been started      *)
(* before, also when the backend fails for one root: whenever a start()    *)
(* has finished, the notification thread has been started.                 *)
(***************************************************************************)
C15_StartSurvivesRootFailure ==
    lastCall[1] = "start" => ThreadStarted

(***************************************************************************)
(* C13: at no time are two threads inside stop() of the same watcher, in   *)
(* any calling layer.                                                      *)
(***************************************************************************)
C13_StopSerialized ==
    \A k \in 1..Len(watchers) : Cardinality(watchers[k].in_stop) <= 1

(***************************************************************************)
(* C14: once a layer is past its registration loop, every candidate root   *)
(* that is a directory has been registered on its watcher and every        *)
(* candidate that is not a directory has been reported.                    *)
(***************************************************************************)
RegistrationOver ==
    /\ watchers # <<>>
    /\ lpc \in {"check", "start", "wait", "stop", "in_stop", "returned",
                "crashed", "menu", "quit"}

C14_BadRootSkipped ==
    RegistrationOver =>
        \A d \in Range(directories) :
            /\ is_dir(d) => d \in Range(watchers[Len(watchers)].watched)
            /\ ~is_dir(d) => d \in log

(***************************************************************************)
(* C17: the paths a layer passes to watch() on one watcher are all         *)
(* different.                                                              *)
(***************************************************************************)
C17_NoRepeatedRoot ==
    \A k \in 1..Len(watchers) : NoRepeats(watchers[k].watched)

(***************************************************************************)
(* C18: the list returned by get_default_directories() has no repeated     *)
(* path, whatever the lookups answer.                                      *)
(***************************************************************************)
C18_DefaultsNoRepeats ==
    lpc = "extend" => NoRepeats(directories)

(***************************************************************************)
(* C19: in every calling layer start() is called at most once on each      *)
(* DirectoryWatcher, hence never on one that is already running.           *)
(***************************************************************************)
C19_StartOncePerWatcher ==
    \A k \in 1..Len(watchers) : watchers[k].starts <= 1

\* the menu-bar app has started a watcher, stopped it and started a second
\* one, which is running
C19_Witness ==
    /\ env.layer = "app"
    /\ Len(watchers) = 2
    /\ watchers[1].starts = 1 /\ watchers[1].thread = "dead"
    /\ watchers[2].starts = 1 /\ watchers[2]._running
    /\ _is_watching

(***************************************************************************)
(* C26: no callback is invoked before start() is called.  While the        *)
(* observer's thread has never been started no step adds an invocation,    *)
(* and an item created then is reported by no emitter; an item no emitter  *)
(* reported has no invocation, at the time or after a later start().       *)
(***************************************************************************)
C26_NoCallbackBeforeStart ==
    /\ [](\A c \in created : c.seq = 0 =>
              \A i \in 1..Len(calls) : calls[i].item # c.path)
    /\ [][dpc = "new" =>
              /\ calls' = calls
              /\ \A c \in created' \ created : c.seq = 0]_vars

\* an item was created under a registered root and reported by no emitter,
\* no stop() has been called, start() has returned since and another item
\* has had its callback
C26_Witness ==
    /\ \E c \in created :
           /\ c.seq = 0 /\ ~c.afterStop
           /\ \E h \in handlers : h._watched_dir = DirOf(c.path)
    /\ ~stopped_event
    /\ lastCall = <<"start", "returned">>
    /\ calls # <<>>

(***************************************************************************)
(* C29: stop() on an engine that was never started returns normally and    *)
(* is_running() is false afterwards.                                       *)
(***************************************************************************)
C29_StopBeforeStartReturns ==
    (lastCall[1] = "stop" /\ ~ThreadStarted) =>
        (lastCall[2] = "returned" /\ ~is_running)

(***************************************************************************)
(* C24: in cmd_watch, once the list of directories is built, with --only   *)
(* it is the resolved command-line directories (the current directory when *)
(* there is none), with nothing taken from the defaults or the             *)
(* configuration; without --only it is the default directories, then the   *)
(* configuration's, then the command line's.  When cmd_watch starts the    *)
(* watcher, the roots it registered are that list.                         *)
(***************************************************************************)
C24_WatchedSet ==
    env.layer = "cli" =>
        /\ lpc \notin {"init", "extend"} =>
               directories =
                   IF env.only
                   THEN (IF env.arg_dirs # <<>>
                         THEN ResolveAll(env.arg_dirs) ELSE <<env.cwd>>)
                   ELSE get_default_directories
                          \o ResolveAll(env.config_directories)
                          \o ResolveAll(env.arg_dirs)
        /\ lpc \in {"start", "wait", "stop", "in_stop"} =>
               watchers[watcher].watched = directories

\* cmd_watch --only with a link on the command line and a configured
\* directory is watching the link's target alone
C24_Witness ==
    /\ env.layer = "cli" /\ env.only
    /\ env.arg_dirs = <<ExtraLink>>
    /\ env.config_directories = <<Desktop>>
    /\ lpc = "wait"
    /\ watchers[watcher].watched = <<Extra>>

(***************************************************************************)
(* C27: in the daemon runner, once the watcher has been started and the    *)
(* stop event is set, run_watcher comes to return, with stop() called      *)
(* exactly once on the watcher; and whenever run_watcher has returned      *)
(* after starting its watcher, the watcher is no longer running.           *)
(***************************************************************************)
C27_RunnerStops ==
    /\ [](env.layer = "runner" /\ lpc = "returned" /\ watcher # 0
            /\ watchers[watcher].starts > 0
          => /\ watchers[watcher].thread = "dead"
             /\ ~watchers[watcher]._running
             /\ watchers[watcher].stops = 1)
    /\ (env.layer = "runner" /\ stop_event /\ watcher # 0
          /\ watchers[watcher].starts > 0 /\ lpc # "crashed")
        ~> (lpc = "returned" /\ watchers[watcher].stops = 1
            /\ watchers[watcher].thread = "dead")

\* run_watcher has returned after SIGTERM, having started and stopped its
\* watcher
C27_Witness ==
    /\ env.layer = "runner"
    /\ stop_event
    /\ lpc = "returned"
    /\ watcher # 0
    /\ watchers[watcher].starts = 1
    /\ watchers[watcher].stops = 1
    /\ watchers[watcher].thread = "dead"

(***************************************************************************)
(* C28: in the Windows service stop() is called only on a watcher whose    *)
(* start() has returned.                                                   *)
(***************************************************************************)
C28_StopOnlyAfterStart ==
    env.layer = "service" =>
        \A k \in 1..Len(watchers) :
            watchers[k].stops > 0 => watchers[k].starts > 0

(***************************************************************************)
(* C30: run_watcher and SvcDoRun call start() only on a watcher with at    *)
(* least one registered root; when their loop has registered none they log *)
(* the error and return, and have not called start(), waited for the stop  *)
(* event or called stop().                                                 *)
(***************************************************************************)
C30_StartNeedsRoot ==
    (env.layer \in {"runner", "service"} /\ watcher # 0) =>
        /\ watchers[watcher].starts > 0 => watchers[watcher].watched # <<>>
        /\ (watchers[watcher].watched = <<>>
             /\ lpc \notin {"loop", "check"}) =>
               /\ lpc = "returned"
               /\ "No directories to watch" \in log
               /\ watchers[watcher].starts = 0
               /\ "started" \notin log
               /\ "stopping" \notin log
               /\ "main" \notin watchers[watcher].in_stop

\* every candidate was passed over and the function has returned
C30_Witness ==
    /\ env.layer \in {"runner", "service"}
    /\ directories # <<>>
    /\ Range(directories) \subseteq log
    /\ lpc = "returned"
    /\ watchers[watcher].watched = <<>>
    /\ watchers[watcher].starts = 0
    /\ "No directories to watch" \in log

(***************************************************************************)
(* C21: a load_config that follows a save_config on the same path, with    *)
(* nothing else writing the file in between, returns the saved list of     *)
(* directory strings, element for element and in the same order.           *)
(***************************************************************************)
C21_SaveLoadRoundTrip ==
    (cfg_last.op = "load" /\ saved.valid) =>
        (cfg_last.raised = "none" /\ cfg_last.directories = saved.directories)

(***************************************************************************)
(* C22: load_config raises FileNotFoundError when it is given a path and   *)
(* the file is missing; with no path given and the default file missing it *)
(* returns a Config with an empty list; a file without a directories key   *)
(* loads as an empty list.                                                 *)
(***************************************************************************)
C22_LoadMissing ==
    cfg_last.op = "load" =>
        /\ (~file.exists /\ config_path = "explicit") =>
               cfg_last.raised = "FileNotFoundError"
        /\ (~file.exists /\ config_path = "None") =>
               (cfg_last.raised = "none" /\ cfg_last.directories = <<>>)
        /\ (file.exists /\ file.text \in {<<>>, <<OtherLine>>}) =>
               (cfg_last.raised = "none" /\ cfg_last.directories = <<>>)

\* the file at the path given is missing and the load has raised
C22_Witness ==
    /\ config_path = "explicit"
    /\ file = Absent
    /\ cfg_last = CfgResult("load", "FileNotFoundError", <<>>)

(***************************************************************************)
(* C23: after any number of setup_logging calls the logger has at most one *)
(* console handler and at most one file handler, no stream holds a message *)
(* twice, and a message is in the log file exactly once when the file's    *)
(* handler was attached and took the message's level.                      *)
(***************************************************************************)
Occurrences(seq, x) == Cardinality({i \in 1..Len(seq) : seq[i] = x})

HandlersOfKind(kind) ==
    {i \in 1..Len(logger.handlers) : logger.handlers[i].kind = kind}

C23_WrittenOnce ==
    /\ Cardinality(HandlersOfKind("console")) <= 1
    /\ Cardinality(HandlersOfKind("file")) <= 1
    /\ \A m \in 1..Len(sent) :
           /\ \A st \in Streams : Occurrences(streams[st], m) <= 1
           /\ \A i \in 1..Len(sent[m].handlers) :
                  LET h == sent[m].handlers[i]
                  IN  (h.kind = "file" /\ sent[m].level >= h.level) =>
                          Occurrences(streams[h.stream], m) = 1

\* setup_logging was called again after a message, with another file and
\* another level; both messages are in the first file once
C23_Witness ==
    /\ Len(sent) = 2
    /\ Len(logger.handlers) = 2
    /\ logger.handlers[2].stream = "housekeeper.log"
    /\ logger.level # logger.handlers[2].level
    /\ streams["housekeeper.log"] = <<1, 2>>
    /\ streams["other.log"] = <<>>

(***************************************************************************)
(* C25: when stop_daemon has returned True, it read a PID from the PID     *)
(* file, found that process running, sent SIGTERM to that PID and to no    *)
(* other, and then found the process not running.  When no PID could be    *)
(* read or the process was not running, it has returned False, and         *)
(* whenever it has returned False it has sent no signal.  When it is over  *)
(* with the signalled process still running, it has raised TimeoutError,   *)
(* after more than the timeout; and it raises TimeoutError in no other     *)
(* case.                                                                   *)
(***************************************************************************)
C25_StopDaemonResult ==
    sd.pc = "done" =>
        /\ sd.result = "True" =>
               /\ sd.pid # 0 /\ sd.alive
               /\ sigterms = <<sd.pid>>
               /\ ~is_process_running(sd.pid)
        /\ (sd.pid = 0 \/ ~sd.alive) => sd.result = "False"
        /\ sd.result = "False" => sigterms = <<>>
        /\ (sigterms # <<>> /\ is_process_running(sd.pid)) =>
               (sd.result = "TimeoutError" /\ sd.clock > STOP_TIMEOUT)
        /\ sd.result = "TimeoutError" =>
               (sigterms = <<sd.pid>> /\ is_process_running(sd.pid))

\* the PID file named process 2, which got SIGTERM, ended within the
\* timeout and was seen to have ended; the PID file is removed
C25_Witness ==
    /\ sd.pc = "done" /\ sd.result = "True"
    /\ sd.pid = 2
    /\ sd.clock > 0
    /\ sigterms = <<2>>
    /\ procs[2] = "none"
    /\ procs[1] = "own"
    /\ pid_file = NoPidFile

(***************************************************************************)
(* C31: in the menu-bar app _is_watching is true exactly when the app      *)
(* holds a watcher whose start() has returned and on which stop() has not  *)
(* been called; at most one watcher is running at a time; a step taken     *)
(* while watching that leaves the app watching (Start while watching)      *)
(* changes no watcher, and a step taken while not watching changes the     *)
(* watchers only by constructing a new one (Stop while not watching        *)
(* changes nothing, Start uses a fresh watcher).                           *)
(***************************************************************************)
C31_AppFlagMatchesWatcher ==
    /\ [](env.layer = "app" =>
            /\ _is_watching <=>
                   (/\ watcher # 0
                    /\ watchers[watcher]._running
                    /\ watchers[watcher].stops = 0)
            /\ Cardinality({k \in 1..Len(watchers) : watchers[k]._running}) <= 1)
    /\ [][env.layer = "app" =>
            /\ (_is_watching /\ _is_watching') =>
                   UNCHANGED <<watchers, watcher>>
            /\ (~_is_watching /\ watchers' # watchers) =>
                   /\ Len(watchers') = Len(watchers) + 1
                   /\ SubSeq(watchers', 1, Len(watchers)) = watchers
                   /\ watcher' = Len(watchers')
                   /\ watchers'[watcher'].starts = 1
                   /\ watchers'[watcher'].stops = 0]_vars

\* the app was started, stopped and started again from the menu: the first
\* watcher is stopped, the second is held and running
C31_Witness ==
    /\ env.layer = "app"
    /\ lpc = "menu"
    /\ _is_watching
    /\ Len(watchers) = 2
    /\ watcher = 2
    /\ watchers[1].stops = 1 /\ ~watchers[1]._running
    /\ watchers[2]._running /\ watchers[2].stops = 0

C33_NoFileAfterNotRunning ==
    (status.called /\ ~status.running) => ~pid_file.exists

(***************************************************************************)
(* C34: a "daemon start" command has called Popen only if its              *)
(* get_daemon_status reported no daemon running; the status step taken     *)
(* while the PID file names a running process ends the command with exit   *)
(* code 1 and no spawn; and the command takes exit code 0 only in a poll,  *)
(* one of at most 50, at which the PID file exists and names a running     *)
(* process, the one whose PID is reported.                                 *)
(***************************************************************************)
C34_StartSpawnsWhenNotRunning ==
    /\ [](\A c \in Cmds :
            /\ cmds[c].spawned => ~cmds[c].seen
            /\ cmds[c].seen => (cmds[c].pc = "done" /\ cmds[c].ret = "1")
            /\ cmds[c].ret = "0" =>
                   (cmds[c].spawned /\ cmds[c].found # 0
                                    /\ cmds[c].polls \in 1..POLLS))
    /\ [][\A c \in Cmds :
            /\ (cmds[c].pc = "status" /\ cmds'[c].pc # "status"
                  /\ read_pid # 0 /\ is_process_running(read_pid)) =>
                   (cmds'[c].pc = "done" /\ cmds'[c].ret = "1"
                                         /\ ~cmds'[c].spawned
                                         /\ procs' = procs)
            /\ (cmds[c].ret # "0" /\ cmds'[c].ret = "0") =>
                   /\ cmds[c].pc = "poll"
                   /\ cmds[c].polls < POLLS
                   /\ pid_file.exists
                   /\ ParsePid(pid_file.text) # 0
                   /\ is_process_running(ParsePid(pid_file.text))
                   /\ cmds'[c].found = ParsePid(pid_file.text)]_vars

\* one command found the daemon running and returned 1 without spawning,
\* the other spawned a daemon after that one had ended and returned 0
C34_Witness ==
    \E c, d \in Cmds :
        /\ cmds[c].pc = "done" /\ cmds[c].seen /\ cmds[c].ret = "1"
        /\ ~cmds[c].spawned
        /\ cmds[d].pc = "done" /\ cmds[d].spawned /\ cmds[d].ret = "0"
        /\ cmds[d].polls > 1

(***************************************************************************)
(* C35: of two "daemon start" commands running side by side, at most one   *)
(* spawns a daemon subprocess.                                             *)
(***************************************************************************)
C35_AtMostOneSpawn ==
    ~(cmds[1].spawned /\ cmds[2].spawned)

(***************************************************************************)
(* C36: from a configuration file whose list has no repeats, after any     *)
(* sequence of "dirs add" and "dirs remove" commands the list in the file  *)
(* and the list the last command held have no repeats; a "dirs add" of a   *)
(* path whose resolved form is in the list, and a "dirs remove" of a path  *)
(* whose resolved form is not, return 1 and leave the list and the file    *)
(* as they were.                                                           *)
(***************************************************************************)
C36_DirsNoDuplicates ==
    /\ [](LoadedOk /\ NoRepeats(Loaded) /\ NoRepeats(cfg_last.directories))
    /\ [][/\ (cfg_last'.op = "add"
                 /\ ResolveStr(cfg_last'.arg) \in Range(Loaded)) =>
                (/\ cfg_last'.ret = "1"
                 /\ cfg_last'.directories = Loaded
                 /\ file' = file)
          /\ (cfg_last'.op = "remove"
                 /\ ResolveStr(cfg_last'.arg) \notin Range(Loaded)) =>
                (/\ cfg_last'.ret = "1"
                 /\ file' = file)]_vars

\* "dirs add" of the link was refused: the directory the link points to
\* had been added to the list before
C36_Witness ==
    /\ cfg_last.op = "add"
    /\ cfg_last.arg = LinkStr
    /\ cfg_last.ret = "1"
    /\ saved.valid
    /\ Loaded = <<<<Backslash, Quote, "a">>, <<"a">>>>

====
